---------------------------- MODULE Spec2Model ----------------------------
(***************************************************************************)
(* A model of the email connector of the human-agent-proxy               *)
(* (EmailConnector.ts): the mailbox session lifecycle (start, stop,        *)
(* ready / error / end events, delayed reconnect), the polling timer, the  *)
(* scan passes over the unread messages, and the task-id extractor.        *)
(*                                                                         *)
(* Text is a sequence of one-character strings.                            *)
(***************************************************************************)
EXTENDS Integers, Sequences, FiniteSets, TLC

(***************************************************************************)
(* Bounds of the model.                                                    *)
(***************************************************************************)
\* Imap objects that exist at the same time (a slot is reused once the
\* object is disconnected and nothing refers to it any more).
MaxSessions == 2
\* processNewEmails invocations in flight at the same time.
MaxScans == 2
\* Messages in the mailbox.
NMsgs == 2
\* Handler invocations recorded per message.
MaxCalls == 2
\* attemptReconnect invocations waiting for their delay at the same time.
MaxPending == 2
\* Characters of a task id handed to sendEmail or written into a subject.
MaxIdLen == 2
\* Fragments a free-form subject is put together from.
MaxFragments == 3
\* sendEmail calls on one connector.
MaxSends == 2
\* Contact requests of the agent, each answered by at most one reply.
MaxContacts == 2
\* Express applications a mock-chat listener can be started on.
MaxApps == 2
\* Route handlers registered on one Express application.
MaxRoutes == 2
\* Webhook requests sent to the Express applications.
MaxRequests == 2

(***************************************************************************)
(* Program constants.                                                      *)
(***************************************************************************)
maxReconnectAttempts == 5
maxEmailContentLength == 1000000

(***************************************************************************)
(* Helpers.                                                                *)
(***************************************************************************)
\* F(v), with v evaluated once.
Bind(v, F(_)) == CHOOSE r \in {F(x) : x \in {v}} : TRUE

Lowest(S) == CHOOSE x \in S : \A y \in S : x <= y

(***************************************************************************)
(* Characters.                                                             *)
(***************************************************************************)
UpperLetters ==
  {"A","B","C","D","E","F","G","H","I","J","K","L","M",
   "N","O","P","Q","R","S","T","U","V","W","X","Y","Z"}
LowerLetters ==
  {"a","b","c","d","e","f","g","h","i","j","k","l","m",
   "n","o","p","q","r","s","t","u","v","w","x","y","z"}
Digits == {"0","1","2","3","4","5","6","7","8","9"}

\* The case folding of the regular expressions' i flag.
ToLower(c) ==
  CASE c = "A" -> "a" [] c = "B" -> "b" [] c = "C" -> "c" [] c = "D" -> "d"
    [] c = "E" -> "e" [] c = "F" -> "f" [] c = "G" -> "g" [] c = "H" -> "h"
    [] c = "I" -> "i" [] c = "J" -> "j" [] c = "K" -> "k" [] c = "L" -> "l"
    [] c = "M" -> "m" [] c = "N" -> "n" [] c = "O" -> "o" [] c = "P" -> "p"
    [] c = "Q" -> "q" [] c = "R" -> "r" [] c = "S" -> "s" [] c = "T" -> "t"
    [] c = "U" -> "u" [] c = "V" -> "v" [] c = "W" -> "w" [] c = "X" -> "x"
    [] c = "Y" -> "y" [] c = "Z" -> "z" [] OTHER -> c

\* \s of the patterns, and the characters String.prototype.trim removes.
IsSpace(c) == c \in {" ", "\t"}

\* The character class [a-zA-Z0-9_-] of the validity test.
IsIdChar(c) == c \in UpperLetters \cup LowerLetters \cup Digits \cup {"_", "-"}

(***************************************************************************)
(* extractTaskId: percent-decoding, the five patterns, trim and validity.  *)
(***************************************************************************)
NoMatch == <<"NoMatch">>
Null == <<"null">>
\* The values of a subject that are not strings, and the outcome of a call
\* that ends by throwing the URIError of decodeURIComponent.
Undefined == <<"undefined">>
NonStrings == {Undefined, Null}
URIError == <<"URIError">>

HexDigits == Digits \cup {"A","B","C","D","E","F","a","b","c","d","e","f"}

\* The character a %XX escape stands for; "" when the escape is not the
\* UTF-8 encoding of a character (decodeURIComponent throws URIError).
PercentChar(h1, h2) ==
  LET x == <<ToLower(h1), ToLower(h2)>> IN
  CASE x = <<"2","0">> -> " "
    [] x = <<"2","3">> -> "#"
    [] x = <<"2","d">> -> "-"
    [] x = <<"3","a">> -> ":"
    [] x = <<"5","b">> -> "["
    [] x = <<"5","d">> -> "]"
    [] x = <<"5","f">> -> "_"
    [] OTHER -> ""

\* A well-formed escape at position i of s.
EscapeAt(s, i) ==
  /\ i + 2 <= Len(s)
  /\ s[i+1] \in HexDigits /\ s[i+2] \in HexDigits
  /\ PercentChar(s[i+1], s[i+2]) # ""

RECURSIVE Decodable(_, _)
\* decodeURIComponent does not throw on s from position i on.
Decodable(s, i) ==
  IF i > Len(s) THEN TRUE
  ELSE IF s[i] # "%" THEN Decodable(s, i + 1)
  ELSE EscapeAt(s, i) /\ Decodable(s, i + 3)

RECURSIVE DecodeFrom(_, _)
\* decodeURIComponent of s from position i on, s being decodable.
DecodeFrom(s, i) ==
  IF i > Len(s) THEN <<>>
  ELSE IF s[i] # "%" THEN <<s[i]>> \o DecodeFrom(s, i + 1)
  ELSE <<PercentChar(s[i+1], s[i+2])>> \o DecodeFrom(s, i + 3)

\* try { normalizedSubject = decodeURIComponent(subject) } catch { raw }
NormalizeSubject(subject) ==
  Bind(subject, LAMBDA raw : IF Decodable(raw, 1) THEN DecodeFrom(raw, 1) ELSE raw)

\* A literal of a pattern (given in lower case) at position i of s, under
\* the i flag: the position after it, 0 when it does not match there.
MatchLit(s, i, lit) ==
  IF i >= 1 /\ i + Len(lit) - 1 <= Len(s)
     /\ \A k \in 1..Len(lit) : ToLower(s[i + k - 1]) = lit[k]
  THEN i + Len(lit) ELSE 0

RECURSIVE SkipSpaces(_, _)
\* The position after the longest run of \s starting at i.
SkipSpaces(s, i) ==
  IF i <= Len(s) /\ IsSpace(s[i]) THEN SkipSpaces(s, i + 1) ELSE i

RECURSIVE SkipToBracket(_, _)
\* The position of the first "]" at or after i, Len(s) + 1 when there is none.
SkipToBracket(s, i) ==
  IF i <= Len(s) /\ s[i] # "]" THEN SkipToBracket(s, i + 1) ELSE i

\* A bracket pattern that does not need the closing bracket.
MatchBracketOpen(s, i) ==
  Bind(MatchLit(s, i, <<"[", "#">>), LAMBDA a :
    IF a = 0 THEN NoMatch
    ELSE Bind(SkipToBracket(s, a), LAMBDA e :
           IF e = a THEN NoMatch ELSE SubSeq(s, a, e - 1)))

\* \[#([^\]]+)\] at position i: the captured group 1, or NoMatch.
MatchBracket(s, i) ==
  Bind(MatchLit(s, i, <<"[", "#">>), LAMBDA a :
    IF a = 0 THEN NoMatch
    ELSE Bind(SkipToBracket(s, a), LAMBDA e :
           IF e = a \/ e > Len(s) THEN NoMatch ELSE SubSeq(s, a, e - 1)))

\* Support\s+request:\s*\[#([^\]]+)\] (colon) or
\* Support\s+request\s*\[#([^\]]+)\] (no colon) at position i.
MatchCore(s, i, colon) ==
  Bind(MatchLit(s, i, <<"s","u","p","p","o","r","t">>), LAMBDA a :
    IF a = 0 THEN NoMatch
    ELSE Bind(SkipSpaces(s, a), LAMBDA b :
      IF b = a THEN NoMatch
      ELSE Bind(MatchLit(s, b, <<"r","e","q","u","e","s","t">>), LAMBDA c :
        IF c = 0 THEN NoMatch
        ELSE Bind(IF colon THEN MatchLit(s, c, <<":">>) ELSE c, LAMBDA d :
          IF d = 0 THEN NoMatch
          ELSE Bind(SkipSpaces(s, d), LAMBDA j : MatchBracket(s, j))))))

\* The alternatives of the optional prefix, in their order, in lower case.
PrefixAlternatives ==
  << <<"r","e">>, <<"f","w","d">>, <<"r","e">>, <<"f","w","d">>, <<"f","w">> >>

\* (?:Re|Fwd|RE|FWD|Fw): at position i: the position after the colon of the
\* first alternative that matches, 0 when none does.
MatchPrefix(s, i) ==
  Bind({k \in 1..Len(PrefixAlternatives) :
          MatchLit(s, MatchLit(s, i, PrefixAlternatives[k]), <<":">>) # 0},
       LAMBDA ok :
         IF ok = {} THEN 0
         ELSE MatchLit(s, MatchLit(s, i, PrefixAlternatives[Lowest(ok)]), <<":">>))

\* Pattern number p anchored at position i: group 1, or NoMatch.
\*   1  (?:(?:Re|Fwd|RE|FWD|Fw):\s*)?Support\s+request:\s*\[#([^\]]+)\]
\*   2  (?:(?:Re|Fwd|RE|FWD|Fw):\s*)?Support\s+request\s*\[#([^\]]+)\]
\*   3  Support\s+request:\s*\[#([^\]]+)\]
\*   4  Support\s+request\s*\[#([^\]]+)\]
\*   5  \[#([^\]]+)\]
MatchAt(s, i, p) ==
  CASE p \in {1, 2} ->
         Bind(MatchPrefix(s, i), LAMBDA pre :
           Bind(IF pre = 0 THEN NoMatch
                ELSE Bind(SkipSpaces(s, pre), LAMBDA j : MatchCore(s, j, p = 1)),
                LAMBDA withPre :
                  IF withPre # NoMatch THEN withPre ELSE MatchCore(s, i, p = 1)))
    [] p \in {3, 4} -> MatchCore(s, i, p = 3)
    [] OTHER -> MatchBracket(s, i)

\* String.prototype.match without the g flag: the leftmost match only.
FirstMatch(s, p) ==
  Bind({i \in 1..Len(s) : MatchAt(s, i, p) # NoMatch}, LAMBDA at :
    IF at = {} THEN NoMatch ELSE MatchAt(s, Lowest(at), p))

RECURSIVE TrimLeft(_)
TrimLeft(s) == IF s # <<>> /\ IsSpace(Head(s)) THEN TrimLeft(Tail(s)) ELSE s

RECURSIVE TrimRight(_)
TrimRight(s) ==
  IF s # <<>> /\ IsSpace(s[Len(s)]) THEN TrimRight(SubSeq(s, 1, Len(s) - 1)) ELSE s

\* String.prototype.trim
Trim(s) == Bind(TrimRight(s), LAMBDA r : TrimLeft(r))

\* A validity rule without the hyphen and the underscore.
ValidTaskIdAlnum(t) ==
  Len(t) > 0 /\ \A k \in 1..Len(t) : t[k] \in UpperLetters \cup LowerLetters \cup Digits

\* taskId.length > 0 && /^[a-zA-Z0-9_-]+$/.test(taskId)
ValidTaskId(t) == Len(t) > 0 /\ \A k \in 1..Len(t) : IsIdChar(t[k])

\* A list that tries the bare bracketed form before the `Support request`
\* forms.
PatternOrderBareFirst == <<5, 1, 2, 3, 4>>

\* The patterns in the order of the list.
PatternOrder == <<1, 2, 3, 4, 5>>

\* Pattern p's verdict on the normalized subject s: the trimmed group 1
\* when there is a match and it is a valid task id, NoMatch otherwise.
PatternResult(s, p) ==
  Bind(FirstMatch(s, p), LAMBDA m :
    IF m = NoMatch \/ Len(m) = 0 THEN NoMatch
    ELSE Bind(Trim(m), LAMBDA taskId :
           IF ValidTaskId(taskId) THEN taskId ELSE NoMatch))

\* A loop that returns at the first pattern that matches at all: null
\* when that match is not a valid task id.
extractTaskIdGivesUp(subject) ==
  IF subject = <<>> \/ subject \in NonStrings THEN Null
  ELSE Bind(NormalizeSubject(subject), LAMBDA s :
         Bind({k \in 1..Len(PatternOrder) : FirstMatch(s, PatternOrder[k]) # NoMatch},
              LAMBDA matching :
                IF matching = {} THEN Null
                ELSE Bind(PatternResult(s, PatternOrder[Lowest(matching)]), LAMBDA r :
                       IF r = NoMatch THEN Null ELSE r)))

\* An extractor whose decodeURIComponent call stands outside a try block:
\* the URIError of a malformed subject ends the call.
extractTaskIdUncaught(subject) ==
  IF subject = <<>> \/ subject \in NonStrings THEN Null
  ELSE IF ~Decodable(subject, 1) THEN URIError
  ELSE Bind(DecodeFrom(subject, 1), LAMBDA s :
         Bind({k \in 1..Len(PatternOrder) : PatternResult(s, PatternOrder[k]) # NoMatch},
              LAMBDA hits :
                IF hits = {} THEN Null
                ELSE PatternResult(s, PatternOrder[Lowest(hits)])))

\* extractTaskId(subject): the result of the first pattern of the list
\* that yields a valid task id, or Null.
extractTaskId(subject) ==
  IF subject = <<>> \/ subject \in NonStrings THEN Null
  ELSE Bind(NormalizeSubject(subject), LAMBDA s :
         Bind({<<k, PatternResult(s, PatternOrder[k])>> : k \in 1..Len(PatternOrder)},
              LAMBDA results :
                LET hits == {r \in results : r[2] # NoMatch}
                IN IF hits = {} THEN Null
                   ELSE (CHOOSE r \in hits : \A q \in hits : r[1] <= q[1])[2]))

(***************************************************************************)
(* Configuration validation (schemas.ts).  A JavaScript value is a tuple   *)
(* whose first element is its kind.                                        *)
(***************************************************************************)
NaN == <<"NaN">>
Str(s) == <<"string", s>>
\* The number n / d.
Num(n, d) == <<"number", n, d>>
Bool(b) == <<"boolean", b>>
\* An object, as the record of its properties; a property that is missing
\* is a field that holds Undefined.
Obj(fields) == <<"object", fields>>

SMTP_PORT_MIN == 1
SMTP_PORT_MAX == 65535
IMAP_PORT_MIN == 1
IMAP_PORT_MAX == 65535

\* z.string(...).min(1, ...): the length test is on the value as given,
\* before .trim() is applied.
ZNonEmptyString(v) == v[1] = "string" /\ Len(v[2]) >= 1

\* .trim(), which replaces the value by the trimmed one.
ZTrim(v) == Str(Trim(v[2]))

\* A port schema without .int(...).
ZPortAnyNumber(v, lo, hi) ==
  /\ v[1] = "number"
  /\ v[2] \div v[3] >= lo
  /\ v[2] \div v[3] <= hi

\* z.number(...).int(...).min(lo, ...).max(hi, ...)
ZPort(v, lo, hi) ==
  /\ v[1] = "number"
  /\ v[2] % v[3] = 0
  /\ v[2] \div v[3] >= lo
  /\ v[2] \div v[3] <= hi

\* z.boolean(...)
ZBoolean(v) == v[1] = "boolean"

\* z.object({rejectUnauthorized: z.boolean().optional()}).passthrough()
ZTlsOptions(v) ==
  /\ v[1] = "object"
  /\ v[2].rejectUnauthorized = Undefined \/ ZBoolean(v[2].rejectUnauthorized)

\* smtpConfigSchema accepts the value.
smtpConfigSchema(c) ==
  /\ c[1] = "object"
  /\ ZNonEmptyString(c[2].host)
  /\ ZPort(c[2].port, SMTP_PORT_MIN, SMTP_PORT_MAX)
  /\ ZBoolean(c[2].secure)
  /\ ZNonEmptyString(c[2].user)
  /\ ZNonEmptyString(c[2].pass)

\* imapConfigSchema accepts the value.
imapConfigSchema(c) ==
  /\ c[1] = "object"
  /\ ZNonEmptyString(c[2].host)
  /\ ZPort(c[2].port, IMAP_PORT_MIN, IMAP_PORT_MAX)
  /\ ZNonEmptyString(c[2].user)
  /\ ZNonEmptyString(c[2].password)
  /\ c[2].tls = Undefined \/ ZBoolean(c[2].tls)
  /\ c[2].tlsOptions = Undefined \/ ZTlsOptions(c[2].tlsOptions)

\* validateSMTPConfig(config): smtpConfigSchema.parse(config), which throws
\* a ZodError or returns the parsed value.
validateSMTPConfig(c) ==
  IF smtpConfigSchema(c)
  THEN [threw |-> FALSE,
        value |-> Obj([c[2] EXCEPT !.host = ZTrim(@), !.user = ZTrim(@)])]
  ELSE [threw |-> TRUE, value |-> Undefined]

\* validateIMAPConfig(config)
validateIMAPConfig(c) ==
  IF imapConfigSchema(c)
  THEN [threw |-> FALSE,
        value |-> Obj([c[2] EXCEPT !.host = ZTrim(@), !.user = ZTrim(@)])]
  ELSE [threw |-> TRUE, value |-> Undefined]

\* new EmailConnector(smtpConfig, imapConfig): the SMTP configuration is
\* validated first, then the IMAP one; the first failure is thrown.
EmailConnector(smtp, imap) ==
  LET s == validateSMTPConfig(smtp)
      i == validateIMAPConfig(imap)
  IN IF s.threw \/ i.threw
     THEN [threw |-> TRUE, smtpConfig |-> Undefined, imapConfig |-> Undefined]
     ELSE [threw |-> FALSE, smtpConfig |-> s.value, imapConfig |-> i.value]

(***************************************************************************)
(* processNewEmails' preparation of the content handed to the callback.    *)
(***************************************************************************)
\* A message body can be longer than a million characters, so a body is
\* written as a sequence of runs: the text unit repeated n times.
Run(unit, n) == [unit |-> unit, n |-> n]

\* The body that is the text s.
Body(s) == IF s = <<>> THEN <<>> ELSE <<Run(s, 1)>>

\* String.prototype.length
RECURSIVE BodyLength(_)
BodyLength(b) ==
  IF b = <<>> THEN 0 ELSE Len(b[1].unit) * b[1].n + BodyLength(Tail(b))

\* String.prototype.substring(0, k)
RECURSIVE Substring0(_, _)
Substring0(b, k) ==
  IF b = <<>> \/ k <= 0 THEN <<>>
  ELSE LET h == b[1]
           hl == Len(h.unit) * h.n
           q == k \div Len(h.unit)
           r == k % Len(h.unit)
       IN IF hl <= k THEN <<h>> \o Substring0(Tail(b), k - hl)
          ELSE (IF q > 0 THEN <<Run(h.unit, q)>> ELSE <<>>)
               \o (IF r > 0 THEN <<Run(SubSeq(h.unit, 1, r), 1)>> ELSE <<>>)

TruncationNotice ==
  Body(<<"\n","\n","[","C","o","n","t","e","n","t"," ","t","r","u","n","c","a","t","e","d",
         " ","d","u","e"," ","t","o"," ","s","i","z","e"," ","l","i","m","i","t","]">>)

\* String.prototype.normalize("NFD") of one character: a precomposed
\* character becomes its base character and the combining mark.
DecomposeChar(c) == IF c = "U+00E9" THEN <<"e", "U+0301">> ELSE <<c>>

RECURSIVE DecomposeText(_)
DecomposeText(s) ==
  IF s = <<>> THEN <<>> ELSE DecomposeChar(Head(s)) \o DecomposeText(Tail(s))

\* String.prototype.normalize("NFD")
NormalizeNFD(b) == [i \in 1..Len(b) |-> Run(DecomposeText(b[i].unit), b[i].n)]

\* let emailContent = parsed.text || parsed.html || ""; truncation; NFD.
EmailContent(msg) ==
  LET c0 == IF msg.text # <<>> THEN msg.text ELSE msg.html
      c1 == IF BodyLength(c0) > maxEmailContentLength
            THEN Substring0(c0, maxEmailContentLength) \o TruncationNotice
            ELSE c0
  IN NormalizeNFD(c1)

(***************************************************************************)
(* The mailbox the connector listens to.                                   *)
(***************************************************************************)
SubjReply ==
  <<"R","e",":"," ","S","u","p","p","o","r","t"," ","r","e","q","u","e","s","t",":"," ",
    "[","#","t","a","s","k","-","4","2","]">>
SubjNotes == <<"M","e","e","t","i","n","g"," ","n","o","t","e","s">>
TextApproved == <<"A","p","p","r","o","v","e","d">>
TextAgenda == <<"A","g","e","n","d","a">>

\* The messages a mailbox of the model may hold, by name.
MailKinds == {"reply", "notes"}
Mail(kind) ==
  IF kind = "reply"
  THEN [subject |-> SubjReply, text |-> Body(TextApproved), html |-> <<>>]
  ELSE [subject |-> SubjNotes, text |-> <<>>, html |-> Body(TextAgenda)]

\* What processNewEmails computes from a parsed message: the task id of its
\* subject (parsed.subject ? this.extractTaskId(parsed.subject) : null) and
\* the content for the callback.
ParsedTaskId == [kind \in MailKinds |-> extractTaskId(Mail(kind).subject)]
ParsedContent == [kind \in MailKinds |-> EmailContent(Mail(kind))]

\* Message sequence numbers, the numbers the fetch "message" event reports.
Msgs == 1..NMsgs
\* UIDs, the numbers search returns and fetch and addFlags take.  A mailbox
\* assigns them in increasing order, so a message's UID is at least its
\* sequence number; they differ as soon as a message was ever expunged.
Uids == 1..(NMsgs + 1)

Mailboxes ==
  {mb \in [Msgs -> [uid : Uids, mail : MailKinds]] :
     \A a, b \in Msgs : a < b => mb[a].uid < mb[b].uid}

(***************************************************************************)
(* Configurations.                                                         *)
(***************************************************************************)
\* A configuration as the README's examples give it.
SmtpValid ==
  Obj([host |-> Str(<<"h">>), port |-> Num(587, 1), secure |-> Bool(FALSE),
       user |-> Str(<<"u">>), pass |-> Str(<<"p">>)])
ImapValid ==
  Obj([host |-> Str(<<"h">>), port |-> Num(993, 1), user |-> Str(<<"u">>),
       password |-> Str(<<"p">>), tls |-> Bool(TRUE), tlsOptions |-> Undefined])

(***************************************************************************)
(* State.                                                                  *)
(***************************************************************************)
VARIABLES
  imapConnection,     \* this.imapConnection: 0 (null) or an Imap object
  isListening,        \* this.isListening
  reconnectAttempts,  \* this.reconnectAttempts
  pollingInterval,    \* this.pollingInterval: 0 (null) or the timer's handle
  timers,             \* the setInterval timers not cleared yet, each named
                      \* by the Imap object its closure holds
  sessions,           \* the Imap objects: connection state, pending openBox
  pendingReconnects,  \* attemptReconnect calls inside their 5 s delay
  terminalError,      \* "Max reconnection attempts reached" was thrown
  mailbox,            \* the INBOX: per sequence number, UID and message
  seen,               \* the messages (sequence numbers) flagged \Seen
  scans,              \* the processNewEmails calls in flight
  calls,              \* per message, the number of callback invocations
  delivered,          \* the arguments the callback was invoked with
  lastOp              \* outcome of the caller's last start / stop call

VARIABLES
  constructed,        \* an EmailConnector object exists
  ctorThrew,          \* the last "new EmailConnector" threw
  smtpConfig,         \* this.smtpConfig
  imapConfig,         \* this.imapConfig
  transporter,        \* this.transporter: 0 (null) or 1 (created)
  outbox,             \* the mail options handed to transporter.sendMail
  sendRet,            \* outcome of the last sendEmail call
  arg,                \* the arguments of the last call of a method
  ret                 \* what a call of a pure method returned

\* The CLI agent (mastra-a2a-agent): the LoopState object, the main loop and
\* the webhook requests.
VARIABLES
  waitingForResponse, \* loopState.waitingForResponse
  pendingResponse,    \* loopState.pendingResponse: 0 (null) or a reply
  responseListeners,  \* the once("response") listeners of loopState
  loopPc,             \* where the main loop is
  toolSucceeded,      \* contactHumanAgentTool succeeded in this generate
  contacts,           \* the contact requests made so far
  webhooks,           \* per reply, the webhook request that carries it
  humanInputs         \* the replies the loop resumed with, in order

\* The mock-chat connector (FakeSlackConnector) and the Express applications
\* its webhook route is injected into.
VARIABLES
  fakeSlackListening, \* FakeSlackConnector.isListening
  expressApp,         \* this.expressApp: 0 (null) or an Express application
  routes,             \* per application, the handlers registered for POST
                      \* /webhook/task-updates, in the order of registration,
                      \* each named by the callback its closure holds
  listenerCallback,   \* the callback of the last start that succeeded
  startRet,           \* outcome of the last startFakeSlackListener call
  invoked,            \* per callback, the number of its invocations
  requests            \* the webhook requests answered so far

\* The fields and the transport of the sending side, and the pure calls.
ctorVars == <<constructed, ctorThrew, smtpConfig, imapConfig>>
sendVars == <<transporter, outbox, sendRet>>
pureVars == <<arg, ret>>
\* The replies: reply r answers the r-th contact request.
ReplyIds == 1..MaxContacts
\* No webhook request for the reply yet.
NoWebhook == [stage |-> "none", token |-> FALSE, result |-> "none"]

agentVars == <<waitingForResponse, pendingResponse, responseListeners, loopPc,
               toolSucceeded, contacts, webhooks, humanInputs>>
\* The Express applications and the callbacks handed to the listener.
Apps == 1..MaxApps
Callbacks == {"A", "B"}
slackVars == <<fakeSlackListening, expressApp, routes, listenerCallback, startRet,
               invoked, requests>>
extVars == <<ctorVars, sendVars, pureVars, agentVars, slackVars>>

vars == <<imapConnection, isListening, reconnectAttempts, pollingInterval, timers,
          sessions, pendingReconnects, terminalError, mailbox, seen, scans, calls,
          delivered, lastOp, extVars>>

connVars == <<imapConnection, isListening, reconnectAttempts, pollingInterval, timers,
              sessions, pendingReconnects, terminalError>>
mailVars == <<mailbox, seen, scans, calls, delivered>>

SessIds == 1..MaxSessions
ScanIds == 1..MaxScans

\* An Imap object: its connection state, whether an openBox is pending,
\* whether the INBOX is open, whether end() was called on it, and which
\* call of startEmailListener created it (by: the caller's or the one
\* inside attemptReconnect).
FreeSession ==
  [st |-> "free", opening |-> FALSE, box |-> FALSE, logout |-> FALSE, by |-> "none"]
NewSession ==
  [st |-> "connecting", opening |-> FALSE, box |-> FALSE, logout |-> FALSE,
   by |-> "caller"]
ReconnectSession == [NewSession EXCEPT !.by = "reconnect"]
\* A connection that is lost emits nothing any more and answers no request.
DeadSession ==
  [st |-> "disconnected", opening |-> FALSE, box |-> FALSE, logout |-> FALSE,
   by |-> "none"]

\* A processNewEmails call: its phase, its Imap object, what triggered it
\* and, per message, how far the message's processing got (ms) and how
\* often this pass invoked the callback for it (invoked).
IdleScan ==
  [phase |-> "idle", sess |-> 0, trig |-> "none", ms |-> [m \in Msgs |-> "none"],
   invoked |-> [m \in Msgs |-> 0]]

\* A connection that is being established or is established and that was
\* not told to log out.
Live(s) == sessions[s].st \in {"connecting", "authenticated"} /\ ~sessions[s].logout
LiveSessions == {s \in SessIds : Live(s)}

\* An Imap object nothing refers to any more is garbage: its slot is free.
Reap(sess, conn, tm, sc) ==
  [s \in SessIds |->
     IF sess[s].st = "disconnected" /\ conn # s /\ s \notin tm
        /\ \A k \in ScanIds : sc[k].phase = "idle" \/ sc[k].sess # s
     THEN FreeSession ELSE sess[s]]

FreeSessIds == {s \in SessIds : sessions[s].st = "free"}
FreeScanIds == {k \in ScanIds : scans[k].phase = "idle"}

\* The listening side of a connector after its construction.
InitListener ==
  /\ imapConnection = 0
  /\ isListening = FALSE
  /\ reconnectAttempts = 0
  /\ pollingInterval = 0
  /\ timers = {}
  /\ sessions = [s \in SessIds |-> FreeSession]
  /\ pendingReconnects = 0
  /\ terminalError = FALSE
  /\ mailbox \in Mailboxes
  /\ seen \in {{}, Msgs}
  /\ scans = [k \in ScanIds |-> IdleScan]
  /\ calls = [m \in Msgs |-> 0]
  /\ delivered = {}
  /\ lastOp = "none"

\* A connector that was constructed from a valid configuration.
InitConstructed ==
  /\ constructed = TRUE /\ ctorThrew = FALSE
  /\ smtpConfig = SmtpValid /\ imapConfig = ImapValid

\* The transporter is created by the first sendEmail.
\* The outcome of a call that was not made yet, and of one that returned v.
NoReturn == [done |-> FALSE, value |-> <<>>]
Returned(v) == [done |-> TRUE, value |-> v]

InitSend == transporter = 0 /\ outbox = <<>> /\ sendRet = NoReturn

\* No call of a pure method is under way.
NoCall == [op |-> "none"]
InitNoCall == arg = NoCall /\ ret = NoReturn

\* The agent process at the start of its main loop.
InitAgent ==
  /\ waitingForResponse = FALSE
  /\ pendingResponse = 0
  /\ responseListeners = 0
  /\ loopPc = "top"
  /\ toolSucceeded = FALSE
  /\ contacts = 0
  /\ webhooks = [r \in ReplyIds |-> NoWebhook]
  /\ humanInputs = <<>>

\* A mock-chat connector after construction, and Express applications
\* without a webhook route.
InitSlack ==
  /\ fakeSlackListening = FALSE
  /\ expressApp = 0
  /\ routes = [a \in Apps |-> <<>>]
  /\ listenerCallback = "none"
  /\ startRet = "none"
  /\ invoked = [c \in Callbacks |-> 0]
  /\ requests = <<>>

Init ==
  InitListener /\ InitConstructed /\ InitSend /\ InitNoCall /\ InitAgent /\ InitSlack

(***************************************************************************)
(* The connector's methods.                                                *)
(***************************************************************************)
\* The slot of the Imap object the next "new Imap" creates, once the
\* connector's own reference is given up; 0 when the model has none left.
NextSessId ==
  LET after == Reap(sessions, 0, timers, scans)
      free == {s \in SessIds : after[s].st = "free"}
  IN IF free = {} THEN 0 ELSE Lowest(free)

\* The slot of the next processNewEmails call; 0 when the model has none left.
NextScanId == IF FreeScanIds = {} THEN 0 ELSE Lowest(FreeScanIds)

\* attemptReconnect with the ceiling test written > instead of >=.
attemptReconnectLateCeiling(attempts) ==
  IF attempts > maxReconnectAttempts
  THEN [attempts |-> attempts, scheduled |-> FALSE, threw |-> TRUE]
  ELSE [attempts |-> attempts + 1, scheduled |-> TRUE, threw |-> FALSE]

\* The entry of attemptReconnect: the ceiling test and the increment.
attemptReconnect(attempts) ==
  IF attempts >= maxReconnectAttempts
  THEN [attempts |-> attempts, scheduled |-> FALSE, threw |-> TRUE]
  ELSE [attempts |-> attempts + 1, scheduled |-> TRUE, threw |-> FALSE]

\* The fields stopEmailListener reads and writes; ended holds the Imap
\* objects whose end() was called.
ConnState ==
  [imapConnection |-> imapConnection, isListening |-> isListening,
   pollingInterval |-> pollingInterval, timers |-> timers,
   reconnectAttempts |-> reconnectAttempts,
   ended |-> {s \in SessIds : sessions[s].logout}, threw |-> FALSE]

\* stopEmailListener without its test of imapConnection and isListening:
\* on a connector without a connection, end() is called on null.
stopEmailListenerUnguarded(c) ==
  IF c.imapConnection = 0
  THEN [c EXCEPT !.threw = TRUE]
  ELSE [imapConnection |-> 0, isListening |-> FALSE, pollingInterval |-> 0,
        timers |-> IF c.pollingInterval # 0 THEN c.timers \ {c.pollingInterval}
                   ELSE c.timers,
        reconnectAttempts |-> 0,
        ended |-> c.ended \cup {c.imapConnection}, threw |-> FALSE]

\* stopEmailListener(), on the fields c.
stopEmailListener(c) ==
  IF c.imapConnection # 0 /\ c.isListening
  THEN [imapConnection |-> 0, isListening |-> FALSE, pollingInterval |-> 0,
        timers |-> IF c.pollingInterval # 0 THEN c.timers \ {c.pollingInterval}
                   ELSE c.timers,
        reconnectAttempts |-> 0,
        ended |-> c.ended \cup {c.imapConnection}, threw |-> FALSE]
  ELSE c

\* processNewEmails(imap, callback) is called: imap.search is issued.  A
\* request that is issued after end() was called on the Imap object is
\* queued behind the LOGOUT and never answered: that pass never proceeds.
StartScan(s, trig) ==
  IF sessions[s].logout
  THEN UNCHANGED scans
  ELSE /\ NextScanId # 0
       /\ scans' = [scans EXCEPT ![NextScanId] =
                      [phase |-> "search", sess |-> s, trig |-> trig,
                       ms |-> [m \in Msgs |-> "none"], invoked |-> [m \in Msgs |-> 0]]]

\* The caller's startEmailListener(callback); throws: imap.connect() throws.
CallerStart(throws) ==
  /\ IF isListening
     THEN /\ lastOp' = "startRejected"
          /\ UNCHANGED <<imapConnection, isListening, sessions>>
     ELSE /\ NextSessId # 0
          /\ imapConnection' = NextSessId
          /\ isListening' = ~throws
          /\ lastOp' = IF throws THEN "startThrew" ELSE "started"
          /\ sessions' = Reap([sessions EXCEPT ![NextSessId] =
                                 IF throws THEN DeadSession ELSE NewSession],
                              imapConnection', timers, scans)
  /\ UNCHANGED <<reconnectAttempts, pollingInterval, timers, pendingReconnects,
                 terminalError>>
  /\ UNCHANGED mailVars
  /\ UNCHANGED extVars

\* The caller's stopEmailListener().
CallerStop ==
  LET r == stopEmailListener(ConnState) IN
  /\ imapConnection' = r.imapConnection
  /\ isListening' = r.isListening
  /\ pollingInterval' = r.pollingInterval
  /\ timers' = r.timers
  /\ reconnectAttempts' = r.reconnectAttempts
  /\ lastOp' = IF r = ConnState THEN "stopNoop" ELSE "stopped"
  /\ sessions' = Reap([s \in SessIds |->
                         IF s \in r.ended /\ sessions[s].st \in {"connecting", "authenticated"}
                         THEN [sessions[s] EXCEPT !.logout = TRUE] ELSE sessions[s]],
                      imapConnection', timers', scans)
  /\ UNCHANGED <<pendingReconnects, terminalError>>
  /\ UNCHANGED mailVars
  /\ UNCHANGED extVars

\* A ready handler that leaves the reconnect counter as it is.
ImapReadyKeepsCount(s) ==
  /\ sessions[s].st = "connecting"
  /\ sessions' = [sessions EXCEPT ![s].st = "authenticated",
                                  ![s].opening = ~sessions[s].logout]
  /\ UNCHANGED <<imapConnection, isListening, reconnectAttempts, pollingInterval,
                 timers, pendingReconnects, terminalError, lastOp>>
  /\ UNCHANGED mailVars
  /\ UNCHANGED extVars

\* imap.once("ready"): the counter is reset and openBox is issued.  A
\* LOGOUT queued before the connection was ready goes out before the SELECT,
\* which is then never answered.
ImapReady(s) ==
  /\ sessions[s].st = "connecting"
  /\ reconnectAttempts' = 0
  /\ sessions' = [sessions EXCEPT ![s].st = "authenticated",
                                  ![s].opening = ~sessions[s].logout]
  /\ UNCHANGED <<imapConnection, isListening, pollingInterval, timers,
                 pendingReconnects, terminalError, lastOp>>
  /\ UNCHANGED mailVars
  /\ UNCHANGED extVars

\* startPolling without its clearInterval of the previous timer.
OpenBoxOkKeepsTimer(s) ==
  /\ sessions[s].st = "authenticated" /\ sessions[s].opening
  /\ StartScan(s, "poll")
  /\ timers' = timers \cup {s}
  /\ pollingInterval' = s
  /\ sessions' = Reap([sessions EXCEPT ![s].opening = FALSE, ![s].box = TRUE],
                      imapConnection, timers', scans')
  /\ UNCHANGED <<imapConnection, isListening, reconnectAttempts, pendingReconnects,
                 terminalError, lastOp>>
  /\ UNCHANGED <<mailbox, seen, calls, delivered>>
  /\ UNCHANGED extVars

\* The openBox callback without an error: startPolling(imap, callback),
\* which clears the previous timer, polls at once and sets the new timer.
OpenBoxOk(s) ==
  /\ sessions[s].st = "authenticated" /\ sessions[s].opening
  /\ StartScan(s, "poll")
  /\ timers' = (IF pollingInterval # 0 THEN timers \ {pollingInterval} ELSE timers)
               \cup {s}
  /\ pollingInterval' = s
  /\ sessions' = Reap([sessions EXCEPT ![s].opening = FALSE, ![s].box = TRUE],
                      imapConnection, timers', scans')
  /\ UNCHANGED <<imapConnection, isListening, reconnectAttempts, pendingReconnects,
                 terminalError, lastOp>>
  /\ UNCHANGED <<mailbox, seen, calls, delivered>>
  /\ UNCHANGED extVars

\* The openBox callback with an error.
OpenBoxErr(s) ==
  /\ sessions[s].st = "authenticated" /\ sessions[s].opening
  /\ isListening' = FALSE
  /\ sessions' = [sessions EXCEPT ![s].opening = FALSE]
  /\ UNCHANGED <<imapConnection, reconnectAttempts, pollingInterval, timers,
                 pendingReconnects, terminalError, lastOp>>
  /\ UNCHANGED mailVars
  /\ UNCHANGED extVars

\* imap.once("error"): the connection is lost; attemptReconnect is called.
ImapError(s) ==
  LET r == attemptReconnect(reconnectAttempts) IN
  /\ sessions[s].st \in {"connecting", "authenticated"}
  /\ r.scheduled => pendingReconnects < MaxPending
  /\ isListening' = FALSE
  /\ reconnectAttempts' = r.attempts
  /\ pendingReconnects' = IF r.scheduled THEN pendingReconnects + 1 ELSE pendingReconnects
  /\ terminalError' = (terminalError \/ r.threw)
  /\ sessions' = Reap([sessions EXCEPT ![s] = DeadSession], imapConnection, timers, scans)
  /\ UNCHANGED <<imapConnection, pollingInterval, timers, lastOp>>
  /\ UNCHANGED mailVars
  /\ UNCHANGED extVars

\* imap.once("end"): the connection ended, after the connector's end() or
\* because the server closed it.
ImapEnd(s) ==
  /\ sessions[s].st \in {"connecting", "authenticated"}
  /\ isListening' = FALSE
  /\ sessions' = Reap([sessions EXCEPT ![s] = DeadSession], imapConnection, timers, scans)
  /\ UNCHANGED <<imapConnection, reconnectAttempts, pollingInterval, timers,
                 pendingReconnects, terminalError, lastOp>>
  /\ UNCHANGED mailVars
  /\ UNCHANGED extVars

\* attemptReconnect after its delay: the connection state is reset and
\* startEmailListener is called; when that throws, attemptReconnect is
\* called again.
ReconnectFire(throws) ==
  LET r == attemptReconnect(reconnectAttempts) IN
  /\ pendingReconnects > 0
  /\ NextSessId # 0
  /\ imapConnection' = NextSessId
  /\ isListening' = ~throws
  /\ reconnectAttempts' = IF throws THEN r.attempts ELSE reconnectAttempts
  /\ pendingReconnects' = IF throws /\ r.scheduled THEN pendingReconnects
                          ELSE pendingReconnects - 1
  /\ terminalError' = (terminalError \/ (throws /\ r.threw))
  /\ sessions' = Reap([sessions EXCEPT ![NextSessId] =
                         IF throws THEN DeadSession ELSE ReconnectSession],
                      imapConnection', timers, scans)
  /\ UNCHANGED <<pollingInterval, timers, lastOp>>
  /\ UNCHANGED mailVars
  /\ UNCHANGED extVars

\* imap.on("mail"): a scan is started.
ImapMail(s) ==
  /\ sessions[s].st = "authenticated" /\ sessions[s].box
  /\ StartScan(s, "mail")
  /\ UNCHANGED connVars
  /\ UNCHANGED <<mailbox, seen, calls, delivered, lastOp>>
  /\ UNCHANGED extVars

\* A tick that does not test isListening.
PollTickUnguarded(s) ==
  /\ s \in timers
  /\ sessions[s].st = "authenticated"
  /\ StartScan(s, "poll")
  /\ UNCHANGED connVars
  /\ UNCHANGED <<mailbox, seen, calls, delivered, lastOp>>
  /\ UNCHANGED extVars

\* A tick of the polling timer whose test passes: a scan is started.
PollTick(s) ==
  /\ s \in timers
  /\ isListening /\ sessions[s].st = "authenticated"
  /\ StartScan(s, "poll")
  /\ UNCHANGED connVars
  /\ UNCHANGED <<mailbox, seen, calls, delivered, lastOp>>
  /\ UNCHANGED extVars

(***************************************************************************)
(* processNewEmails: one scan pass.                                        *)
(***************************************************************************)
\* A search with the criterion ALL: the UIDs of all messages.
SearchAll == {mailbox[m].uid : m \in Msgs}

\* imap.search(["UNSEEN"]): the UIDs of the messages not flagged \Seen.
SearchUnseen == {mailbox[m].uid : m \in Msgs \ seen}

\* imap.fetch(uids): the messages with these UIDs, each reported to the
\* "message" handler with its sequence number.
FetchSeqnos(uids) == {m \in Msgs : mailbox[m].uid \in uids}

\* imap.addFlags(source, "\\Seen"): the messages whose UID is source are
\* flagged (imap.seq.addFlags is the variant that takes sequence numbers).
addFlags(source) == seen \cup {m \in Msgs : mailbox[m].uid = source}

Finished == {"none", "skipped", "returned", "threw", "parseFailed"}

\* The search callback without an error: nothing unread resolves the pass,
\* otherwise the unread messages are fetched.  A fetch that is issued after
\* end() was called is never answered: nothing further happens in the pass.
SearchDone(k) ==
  /\ scans[k].phase = "search"
  /\ sessions[scans[k].sess].st = "authenticated"
  /\ LET results == SearchUnseen IN
     scans' = IF results = {} \/ sessions[scans[k].sess].logout
              THEN [scans EXCEPT ![k] = IdleScan]
              ELSE [scans EXCEPT ![k].phase = "fetch",
                                 ![k].ms = [m \in Msgs |->
                                              IF m \in FetchSeqnos(results)
                                              THEN "fetched" ELSE "none"]]
  /\ sessions' = Reap(sessions, imapConnection, timers, scans')
  /\ UNCHANGED <<imapConnection, isListening, reconnectAttempts, pollingInterval,
                 timers, pendingReconnects, terminalError, lastOp>>
  /\ UNCHANGED <<mailbox, seen, calls, delivered>>
  /\ UNCHANGED extVars

\* A search failure whose handling marks the connector as not listening.
SearchFailStopsListening(k) ==
  /\ scans[k].phase = "search"
  /\ scans' = [scans EXCEPT ![k] = IdleScan]
  /\ isListening' = FALSE
  /\ sessions' = Reap(sessions, imapConnection, timers, scans')
  /\ UNCHANGED <<imapConnection, reconnectAttempts, pollingInterval,
                 timers, pendingReconnects, terminalError, lastOp>>
  /\ UNCHANGED <<mailbox, seen, calls, delivered>>
  /\ UNCHANGED extVars

\* The search callback with an error: the pass rejects, and its caller
\* (pollForNewEmails or the "mail" handler) logs the error.
SearchFail(k) ==
  /\ scans[k].phase = "search"
  /\ scans' = [scans EXCEPT ![k] = IdleScan]
  /\ sessions' = Reap(sessions, imapConnection, timers, scans')
  /\ UNCHANGED <<imapConnection, isListening, reconnectAttempts, pollingInterval,
                 timers, pendingReconnects, terminalError, lastOp>>
  /\ UNCHANGED <<mailbox, seen, calls, delivered>>
  /\ UNCHANGED extVars

\* fetch.once("error"): the pass rejects, and its caller logs the error.
\* The messages in lost were not delivered by the fetch and never arrive;
\* the messages that were delivered are processed as before.
FetchFail(k, lost) ==
  /\ scans[k].phase = "fetch"
  /\ lost # {} /\ \A m \in lost : scans[k].ms[m] = "fetched"
  /\ scans' = [scans EXCEPT ![k].ms = [m \in Msgs |->
                                        IF m \in lost THEN "none" ELSE scans[k].ms[m]]]
  /\ UNCHANGED connVars
  /\ UNCHANGED <<mailbox, seen, calls, delivered, lastOp>>
  /\ UNCHANGED extVars

\* A pass that does not remember that it invoked the callback for m.
ProcessMessageRepeats(k, m) ==
  LET taskId == ParsedTaskId[mailbox[m].mail] IN
  /\ scans[k].phase = "fetch" /\ scans[k].ms[m] = "fetched"
  /\ taskId # Null
  /\ calls[m] < MaxCalls
  /\ calls' = [calls EXCEPT ![m] = @ + 1]
  /\ delivered' = delivered \cup
                    {[seqno |-> m, taskId |-> taskId,
                      content |-> ParsedContent[mailbox[m].mail]]}
  /\ scans' = [scans EXCEPT ![k].invoked[m] = @ + 1]
  /\ UNCHANGED connVars
  /\ UNCHANGED <<mailbox, seen, lastOp>>
  /\ UNCHANGED extVars

\* msg.on("body") up to the callback invocation: the message is parsed, the
\* task id extracted; without one the message is skipped, with one the
\* content is prepared and the callback is invoked.
ProcessMessage(k, m) ==
  LET taskId == ParsedTaskId[mailbox[m].mail] IN
  /\ scans[k].phase = "fetch" /\ scans[k].ms[m] = "fetched"
  /\ IF taskId = Null
     THEN /\ scans' = [scans EXCEPT ![k].ms[m] = "skipped"]
          /\ UNCHANGED <<calls, delivered>>
     ELSE /\ calls[m] < MaxCalls
          /\ calls' = [calls EXCEPT ![m] = @ + 1]
          /\ delivered' = delivered \cup
                            {[seqno |-> m, taskId |-> taskId,
                              content |-> ParsedContent[mailbox[m].mail]]}
          /\ scans' = [scans EXCEPT ![k].ms[m] = "handling", ![k].invoked[m] = @ + 1]
  /\ UNCHANGED connVars
  /\ UNCHANGED <<mailbox, seen, lastOp>>
  /\ UNCHANGED extVars

\* A parse failure that is not caught: the pass rejects.
ParseFailAborts(k, m) ==
  /\ scans[k].phase = "fetch" /\ scans[k].ms[m] = "fetched"
  /\ scans' = [scans EXCEPT ![k] = IdleScan]
  /\ UNCHANGED connVars
  /\ UNCHANGED <<mailbox, seen, calls, delivered, lastOp>>
  /\ UNCHANGED extVars

\* simpleParser(stream) rejects: the error is caught and logged, and the
\* message's promise resolves.
ParseFail(k, m) ==
  /\ scans[k].phase = "fetch" /\ scans[k].ms[m] = "fetched"
  /\ scans' = [scans EXCEPT ![k].ms[m] = "parseFailed"]
  /\ UNCHANGED connVars
  /\ UNCHANGED <<mailbox, seen, calls, delivered, lastOp>>
  /\ UNCHANGED extVars

\* The awaited callback returned or resolved: imap.addFlags(seqno, "\\Seen"),
\* which takes effect while the connection is up and end() was not called
\* on it.
HandlerReturn(k, m) ==
  /\ scans[k].phase = "fetch" /\ scans[k].ms[m] = "handling"
  /\ scans' = [scans EXCEPT ![k].ms[m] = "returned"]
  /\ seen' = IF Live(scans[k].sess) /\ sessions[scans[k].sess].st = "authenticated"
             THEN addFlags(m) ELSE seen
  /\ UNCHANGED connVars
  /\ UNCHANGED <<mailbox, calls, delivered, lastOp>>
  /\ UNCHANGED extVars

\* A catch block that flags the message read.
HandlerThrowFlags(k, m) ==
  /\ scans[k].phase = "fetch" /\ scans[k].ms[m] = "handling"
  /\ scans' = [scans EXCEPT ![k].ms[m] = "threw"]
  /\ seen' = seen \cup {m}
  /\ UNCHANGED connVars
  /\ UNCHANGED <<mailbox, calls, delivered, lastOp>>
  /\ UNCHANGED extVars

\* A callback failure that is not caught: the pass rejects.
HandlerThrowAborts(k, m) ==
  /\ scans[k].phase = "fetch" /\ scans[k].ms[m] = "handling"
  /\ scans' = [scans EXCEPT ![k] = IdleScan]
  /\ UNCHANGED connVars
  /\ UNCHANGED <<mailbox, seen, calls, delivered, lastOp>>
  /\ UNCHANGED extVars

\* The callback threw or rejected: the error is caught and logged.
HandlerThrow(k, m) ==
  /\ scans[k].phase = "fetch" /\ scans[k].ms[m] = "handling"
  /\ scans' = [scans EXCEPT ![k].ms[m] = "threw"]
  /\ UNCHANGED connVars
  /\ UNCHANGED <<mailbox, seen, calls, delivered, lastOp>>
  /\ UNCHANGED extVars

\* fetch "end" and Promise.all(processingPromises): the pass resolves.
ScanEnd(k) ==
  /\ scans[k].phase = "fetch"
  /\ \A m \in Msgs : scans[k].ms[m] \in Finished
  /\ scans' = [scans EXCEPT ![k] = IdleScan]
  /\ sessions' = Reap(sessions, imapConnection, timers, scans')
  /\ UNCHANGED <<imapConnection, isListening, reconnectAttempts, pollingInterval,
                 timers, pendingReconnects, terminalError, lastOp>>
  /\ UNCHANGED <<mailbox, seen, calls, delivered>>
  /\ UNCHANGED extVars

(***************************************************************************)
(* The specification.                                                      *)
(***************************************************************************)
Next ==
  \/ \E throws \in BOOLEAN : CallerStart(throws)
  \/ CallerStop
  \/ \E s \in SessIds : ImapReady(s)
  \/ \E s \in SessIds : OpenBoxOk(s)
  \/ \E s \in SessIds : OpenBoxErr(s)
  \/ \E s \in SessIds : ImapError(s)
  \/ \E s \in SessIds : ImapEnd(s)
  \/ \E throws \in BOOLEAN : ReconnectFire(throws)
  \/ \E s \in SessIds : ImapMail(s)
  \/ \E s \in SessIds : PollTick(s)
  \/ \E k \in ScanIds : SearchDone(k)
  \/ \E k \in ScanIds : SearchFail(k)
  \/ \E k \in ScanIds, lost \in SUBSET Msgs : FetchFail(k, lost)
  \/ \E k \in ScanIds, m \in Msgs : ProcessMessage(k, m)
  \/ \E k \in ScanIds, m \in Msgs : ParseFail(k, m)
  \/ \E k \in ScanIds, m \in Msgs : HandlerReturn(k, m)
  \/ \E k \in ScanIds, m \in Msgs : HandlerThrow(k, m)
  \/ \E k \in ScanIds : ScanEnd(k)

Spec == Init /\ [][Next]_vars

(***************************************************************************)
(* The session lifecycle on its own: every message of the mailbox is read  *)
(* already, so that each scan finds nothing to process.                    *)
(***************************************************************************)
InitLife == Init /\ seen = Msgs /\ mailbox = [m \in Msgs |-> [uid |-> m, mail |-> "reply"]]

NextLife ==
  \/ \E throws \in BOOLEAN : CallerStart(throws)
  \/ CallerStop
  \/ \E s \in SessIds : ImapReady(s)
  \/ \E s \in SessIds : OpenBoxOk(s)
  \/ \E s \in SessIds : OpenBoxErr(s)
  \/ \E s \in SessIds : ImapError(s)
  \/ \E s \in SessIds : ImapEnd(s)
  \/ \E throws \in BOOLEAN : ReconnectFire(throws)
  \/ \E s \in SessIds : ImapMail(s)
  \/ \E s \in SessIds : PollTick(s)
  \/ \E k \in ScanIds : SearchDone(k)
  \/ \E k \in ScanIds : SearchFail(k)

SpecLife == InitLife /\ [][NextLife]_vars

\* A connection attempt comes to an outcome: it is ready or it fails (the
\* connection and authentication timeouts of the Imap object).
ConnectOutcome(s) ==
  /\ sessions[s].st = "connecting"
  /\ ImapReady(s) \/ ImapError(s)

\* The lifecycle with the progress the runtime gives: a reconnect delay
\* elapses, a connection attempt comes to an outcome, a request on the
\* connection is answered.  The caller and the server need not act.
SpecLifeFair ==
  /\ SpecLife
  /\ WF_vars(\E throws \in BOOLEAN : ReconnectFire(throws))
  /\ WF_vars(\E s \in SessIds : ConnectOutcome(s))
  /\ WF_vars(\E s \in SessIds : OpenBoxOk(s) \/ OpenBoxErr(s))
  /\ WF_vars(\E k \in ScanIds : SearchDone(k) \/ SearchFail(k))

(***************************************************************************)
(* The scan passes over a mailbox of unread messages, on sessions that the *)
(* caller starts and that the server may end.                              *)
(***************************************************************************)
InitScan == Init /\ seen = {}

NextScan ==
  \/ CallerStart(FALSE)
  \/ \E s \in SessIds : ImapReady(s)
  \/ \E s \in SessIds : OpenBoxOk(s)
  \/ \E s \in SessIds : ImapEnd(s)
  \/ \E s \in SessIds : ImapMail(s)
  \/ \E s \in SessIds : PollTick(s)
  \/ \E k \in ScanIds : SearchDone(k)
  \/ \E k \in ScanIds : SearchFail(k)
  \/ \E k \in ScanIds, m \in Msgs : ProcessMessage(k, m)
  \/ \E k \in ScanIds, m \in Msgs : HandlerReturn(k, m)
  \/ \E k \in ScanIds, m \in Msgs : HandlerThrow(k, m)
  \/ \E k \in ScanIds : ScanEnd(k)

SpecScan == InitScan /\ [][NextScan]_vars

(***************************************************************************)
(* The scan passes of a listener that the caller starts and stops, over a  *)
(* mailbox of unread replies from which nothing was ever expunged.         *)
(***************************************************************************)
InitStop == InitScan /\ mailbox = [m \in Msgs |-> [uid |-> m, mail |-> "reply"]]

NextStop ==
  \/ CallerStart(FALSE)
  \/ CallerStop
  \/ \E s \in SessIds : ImapReady(s)
  \/ \E s \in SessIds : OpenBoxOk(s)
  \/ \E s \in SessIds : ImapEnd(s)
  \/ \E s \in SessIds : PollTick(s)
  \/ \E k \in ScanIds : SearchDone(k)
  \/ \E k \in ScanIds, m \in Msgs : ProcessMessage(k, m)
  \/ \E k \in ScanIds, m \in Msgs : HandlerReturn(k, m)
  \/ \E k \in ScanIds, m \in Msgs : HandlerThrow(k, m)
  \/ \E k \in ScanIds : ScanEnd(k)

SpecStop == InitStop /\ [][NextStop]_vars

(***************************************************************************)
(* The scan passes of one listener over the same mailbox, with messages    *)
(* that fail to parse and searches and fetches that fail.                  *)
(***************************************************************************)
NextParse ==
  \/ CallerStart(FALSE)
  \/ \E s \in SessIds : ImapReady(s)
  \/ \E s \in SessIds : OpenBoxOk(s)
  \/ \E s \in SessIds : ImapMail(s)
  \/ \E s \in SessIds : PollTick(s)
  \/ \E k \in ScanIds : SearchDone(k)
  \/ \E k \in ScanIds : SearchFail(k)
  \/ \E k \in ScanIds, lost \in SUBSET Msgs : FetchFail(k, lost)
  \/ \E k \in ScanIds, m \in Msgs : ProcessMessage(k, m)
  \/ \E k \in ScanIds, m \in Msgs : ParseFail(k, m)
  \/ \E k \in ScanIds, m \in Msgs : HandlerReturn(k, m)
  \/ \E k \in ScanIds, m \in Msgs : HandlerThrow(k, m)
  \/ \E k \in ScanIds : ScanEnd(k)

SpecParse == InitStop /\ [][NextParse]_vars

(***************************************************************************)
(* The pure methods on their own: extractTaskId on subjects, and the       *)
(* preparation of the content on bodies.                                   *)
(***************************************************************************)
\* A subject without the brackets.
SubjectForBare(taskId) ==
  <<"S","u","p","p","o","r","t"," ","r","e","q","u","e","s","t",":"," ","#">> \o taskId

\* sendEmail's subject: `Support request: [#${taskId}]`
SubjectFor(taskId) ==
  <<"S","u","p","p","o","r","t"," ","r","e","q","u","e","s","t",":"," ","[","#">>
    \o taskId \o <<"]">>

\* One character of each class of [a-zA-Z0-9_-].
IdChars == {"a", "Z", "0", "_", "-"}
TaskIds == UNION {[1..n -> IdChars] : n \in 1..MaxIdLen}

\* The reply and forward prefixes mail clients put before a subject.
ReplyPrefixes ==
  {<<>>, <<"R","e",":"," ">>, <<"F","w","d",":"," ">>, <<"R","E",":"," ">>,
   <<"F","W","D",":"," ">>, <<"F","w",":"," ">>}

\* `Support request: [#X]`, with or without a prefix, with or without the colon.
ShapedSubject(prefix, colon, id) ==
  prefix \o <<"S","u","p","p","o","r","t"," ","r","e","q","u","e","s","t">>
    \o (IF colon THEN <<":">> ELSE <<>>) \o <<" ","[","#">> \o id \o <<"]">>

ShapedSubjects ==
  {ShapedSubject(prefix, colon, id) :
     prefix \in ReplyPrefixes, colon \in BOOLEAN, id \in TaskIds}

\* The fragments of the free-form subjects.
Fragments ==
  {<<"[","#","o","k","]">>, <<"[","#","a"," ","b","]">>, <<"[","#","]">>,
   <<"[","#"," ","k"," ","]">>, <<"x">>, <<" ">>, <<"]">>, <<"[","#">>,
   <<"S","u","p","p","o","r","t"," ","r","e","q","u","e","s","t",":"," ","[","#","i","n","]">>,
   <<"S","u","p","p","o","r","t"," ","r","e","q","u","e","s","t",":"," ","[","#","b","!","]">>,
   <<"%","5","B","%","2","3","p","%","5","D">>, <<"%">>}

RECURSIVE Concat(_)
Concat(parts) == IF parts = <<>> THEN <<>> ELSE Head(parts) \o Concat(Tail(parts))

FreeSubjects ==
  {Concat(parts) : parts \in UNION {[1..n -> Fragments] : n \in 0..MaxFragments}}

\* The subjects sendEmail writes, the shaped ones and the free-form ones.
Subjects == {SubjectFor(id) : id \in TaskIds} \cup ShapedSubjects \cup FreeSubjects

\* Bodies around the ceiling, of plain and of precomposed characters.
BodyUnits == {<<"a">>, <<"U+00E9">>, <<"a", "U+00E9">>}
BodyCounts ==
  {1, maxEmailContentLength - 1, maxEmailContentLength, maxEmailContentLength + 1}
Bodies ==
  {<<>>} \cup {<<Run(u, n)>> : u \in BodyUnits, n \in BodyCounts}
         \cup {<<Run(u, n), Run(v, 2)>> : u \in BodyUnits, v \in BodyUnits, n \in BodyCounts}

\* The parsed messages: parsed.text and parsed.html.
ParsedBodies == [text : Bodies, html : {<<>>, Body(TextAgenda)}]

InitPure ==
  /\ InitListener /\ seen = Msgs
  /\ mailbox = [m \in Msgs |-> [uid |-> m, mail |-> "reply"]]
  /\ InitConstructed /\ InitSend /\ InitAgent /\ InitSlack
  /\ arg \in [op : {"extractTaskId"}, subject : Subjects \cup NonStrings]
             \cup [op : {"emailContent"}, msg : ParsedBodies]
  /\ ret = NoReturn

\* this.extractTaskId(parsed.subject)
CallExtractTaskId ==
  /\ arg.op = "extractTaskId" /\ ~ret.done
  /\ ret' = Returned(extractTaskId(arg.subject))
  /\ UNCHANGED <<connVars, mailVars, lastOp, ctorVars, sendVars, arg, agentVars, slackVars>>

\* The preparation of emailContent from a parsed message.
CallEmailContent ==
  /\ arg.op = "emailContent" /\ ~ret.done
  /\ ret' = Returned(EmailContent(arg.msg))
  /\ UNCHANGED <<connVars, mailVars, lastOp, ctorVars, sendVars, arg, agentVars, slackVars>>

NextPure ==
  \/ CallExtractTaskId
  \/ CallEmailContent

SpecPure == InitPure /\ [][NextPure]_vars

(***************************************************************************)
(* Construction and sendEmail.                                             *)
(***************************************************************************)
\* The values the fields of a configuration are given.
HostInputs == {Undefined, Str(<<>>), Str(<<" ">>), Str(<<"h">>), Num(1, 1)}
PortInputs ==
  {Undefined, Str(<<"2", "5">>), NaN, Num(-1, 1), Num(0, 1), Num(1, 1), Num(5, 2),
   Num(65535, 1), Num(65536, 1)}
SmtpInputs ==
  {Undefined, Str(<<"c">>)}
  \cup {Obj(f) : f \in [host : HostInputs, port : PortInputs,
                        secure : {Undefined, Bool(TRUE)},
                        user : {Str(<<"u">>)},
                        pass : {Str(<<"p">>), Num(1, 1)}]}
ImapInputs ==
  {Undefined}
  \cup {Obj(f) : f \in [host : {Str(<<"h">>)},
                        port : {Str(<<"9">>), Num(0, 1), Num(3, 2), Num(993, 1)},
                        user : {Str(<<"u">>)},
                        password : {Undefined, Str(<<"p">>)},
                        tls : {Undefined},
                        tlsOptions : {Undefined,
                                      Obj([rejectUnauthorized |-> Bool(FALSE)])}]}

InitUnconstructed ==
  /\ constructed = FALSE /\ ctorThrew = FALSE
  /\ smtpConfig = Undefined /\ imapConfig = Undefined

\* new EmailConnector(smtp, imap)
Construct(smtp, imap) ==
  LET c == EmailConnector(smtp, imap) IN
  /\ ~constructed /\ ~ctorThrew
  /\ arg' = [op |-> "construct", smtp |-> smtp, imap |-> imap]
  /\ constructed' = ~c.threw
  /\ ctorThrew' = c.threw
  /\ smtpConfig' = c.smtpConfig
  /\ imapConfig' = c.imapConfig
  /\ UNCHANGED <<connVars, mailVars, lastOp, sendVars, ret, agentVars, slackVars>>

\* The identifiers, the options and the outcomes of the sendEmail calls.
SendIds == {<<"a">>, <<"Z", "-">>}
OptionKeys == {"subject", "cc"}
OptionSets == UNION {[K -> {Str(<<"H", "i">>)}] : K \in SUBSET OptionKeys}
SendOutcomes == {<<"ok">>, <<"Error", <<"E","C","O","N","N">> >>, <<"thrown">>}
ContactInfo == <<"t","@","x">>
ContactMessage == <<"h","e","l","p">>

\* {from, subject, to, text, ...(options || {})}
MailOptions(taskId, options) ==
  LET base == [k \in {"from", "subject", "to", "text"} |->
                 CASE k = "from" -> smtpConfig[2].user
                   [] k = "subject" -> Str(SubjectFor(taskId))
                   [] k = "to" -> Str(ContactInfo)
                   [] OTHER -> Str(ContactMessage)]
  IN [k \in DOMAIN base \cup DOMAIN options |->
        IF k \in DOMAIN options THEN options[k] ELSE base[k]]

\* The message of the error sendEmail throws for a failure of the transport.
SendError(taskId, outcome) ==
  <<"F","a","i","l","e","d"," ","t","o"," ","s","e","n","d"," ","e","m","a",
      "i","l"," ","f","o","r"," ","t","a","s","k"," ">>
    \o taskId \o <<":", " ">>
    \o (IF outcome[1] = "Error" THEN outcome[2]
        ELSE <<"U","n","k","n","o","w","n"," ","e","r","r","o","r">>)

\* A sendEmail that hands the mail options over a second time when the
\* transport fails.
SendEmailRetries(taskId, options, outcome) ==
  /\ constructed /\ Len(outbox) < MaxSends
  /\ arg' = [op |-> "sendEmail", taskId |-> taskId, options |-> options,
             outcome |-> outcome]
  /\ transporter' = 1
  /\ outbox' = IF outcome[1] = "ok" THEN Append(outbox, MailOptions(taskId, options))
               ELSE outbox \o <<MailOptions(taskId, options), MailOptions(taskId, options)>>
  /\ sendRet' = IF outcome[1] = "ok" THEN Returned(<<"ok">>)
                ELSE Returned(<<"Error", SendError(taskId, outcome)>>)
  /\ UNCHANGED <<connVars, mailVars, lastOp, ctorVars, ret, agentVars, slackVars>>

\* sendEmail(taskId, contactTeamMember, options), the transport answering
\* with outcome.
SendEmail(taskId, options, outcome) ==
  /\ constructed /\ Len(outbox) < MaxSends
  /\ arg' = [op |-> "sendEmail", taskId |-> taskId, options |-> options,
             outcome |-> outcome]
  /\ transporter' = 1
  /\ outbox' = Append(outbox, MailOptions(taskId, options))
  /\ sendRet' = IF outcome[1] = "ok" THEN Returned(<<"ok">>)
                ELSE Returned(<<"Error", SendError(taskId, outcome)>>)
  /\ UNCHANGED <<connVars, mailVars, lastOp, ctorVars, ret, agentVars, slackVars>>

InitConnector ==
  /\ InitListener /\ seen = Msgs
  /\ mailbox = [m \in Msgs |-> [uid |-> m, mail |-> "reply"]]
  /\ InitUnconstructed /\ InitSend /\ InitNoCall /\ InitAgent /\ InitSlack

NextConnector ==
  \/ \E smtp \in SmtpInputs, imap \in ImapInputs : Construct(smtp, imap)
  \/ \E taskId \in SendIds, options \in OptionSets, outcome \in SendOutcomes :
       SendEmail(taskId, options, outcome)

SpecConnector == InitConnector /\ [][NextConnector]_vars

(***************************************************************************)
(* The CLI agent: LoopState, the main loop and the webhook.                *)
(***************************************************************************)
emailVars == <<connVars, mailVars, lastOp, ctorVars, sendVars, pureVars, slackVars>>

\* The top of the while loop: when the loop is waiting, waitForResponse is
\* called, which resolves at once with a pending response (the loop then
\* clears the waiting flag and generates) or registers a listener;
\* otherwise the user is prompted.
LoopTop ==
  /\ loopPc = "top"
  /\ IF waitingForResponse
     THEN IF pendingResponse # 0
          THEN /\ humanInputs' = Append(humanInputs, pendingResponse)
               /\ pendingResponse' = 0
               /\ waitingForResponse' = FALSE
               /\ toolSucceeded' = FALSE
               /\ loopPc' = "generating"
               /\ UNCHANGED responseListeners
          ELSE /\ responseListeners' = responseListeners + 1
               /\ loopPc' = "awaitResponse"
               /\ UNCHANGED <<pendingResponse, waitingForResponse, toolSucceeded,
                              humanInputs>>
     ELSE /\ loopPc' = "prompt"
          /\ UNCHANGED <<pendingResponse, waitingForResponse, toolSucceeded,
                         humanInputs, responseListeners>>
  /\ UNCHANGED <<contacts, webhooks>>
  /\ UNCHANGED emailVars

\* promptUser returns: "exit" leaves the loop, another input is generated on.
Prompt(exit) ==
  /\ loopPc = "prompt"
  /\ loopPc' = IF exit THEN "exited" ELSE "generating"
  /\ toolSucceeded' = FALSE
  /\ UNCHANGED <<waitingForResponse, pendingResponse, responseListeners, contacts,
                 webhooks, humanInputs>>
  /\ UNCHANGED emailVars

\* Inside agent.generate the model calls contactHumanAgentTool, which
\* succeeds: the request is with the human from now on.
ToolContact ==
  /\ loopPc = "generating" /\ ~toolSucceeded
  /\ contacts < MaxContacts
  /\ contacts' = contacts + 1
  /\ toolSucceeded' = TRUE
  /\ UNCHANGED <<waitingForResponse, pendingResponse, responseListeners, loopPc,
                 webhooks, humanInputs>>
  /\ UNCHANGED emailVars

\* agent.generate returns; after a successful contact the loop marks
\* itself as waiting.
GenerateEnd ==
  /\ loopPc = "generating"
  /\ waitingForResponse' = (toolSucceeded \/ waitingForResponse)
  /\ loopPc' = "top"
  /\ UNCHANGED <<pendingResponse, responseListeners, toolSucceeded, contacts,
                 webhooks, humanInputs>>
  /\ UNCHANGED emailVars

\* POST /webhook/task-updates for reply r arrives: the token is tested, and
\* with the right token the task is requested from the proxy.
WebhookPost(r, token, result) ==
  /\ r <= contacts /\ webhooks[r].stage = "none"
  /\ webhooks' = [webhooks EXCEPT ![r] =
                    [stage |-> IF token THEN "fetching" ELSE "unauthorized",
                     token |-> token, result |-> result]]
  /\ UNCHANGED <<waitingForResponse, pendingResponse, responseListeners, loopPc,
                 toolSucceeded, contacts, humanInputs>>
  /\ UNCHANGED emailVars

\* getTask has answered for reply r.  With a response text and the loop
\* marked as waiting, setResponse stores the text and emits "response",
\* which resolves the loop's waitForResponse if a listener is registered:
\* the loop then clears the waiting flag and generates.  With a response
\* text and the loop not marked as waiting, nothing is done.
WebhookDeliver(r) ==
  /\ webhooks[r].stage = "fetching"
  /\ webhooks' = [webhooks EXCEPT ![r].stage = "done"]
  /\ IF webhooks[r].result = "text" /\ waitingForResponse
     THEN /\ pendingResponse' = r
          /\ IF responseListeners > 0
             THEN /\ responseListeners' = 0
                  /\ humanInputs' = Append(humanInputs, r)
                  /\ waitingForResponse' = FALSE
                  /\ toolSucceeded' = FALSE
                  /\ loopPc' = "generating"
             ELSE UNCHANGED <<responseListeners, humanInputs, waitingForResponse,
                              toolSucceeded, loopPc>>
     ELSE UNCHANGED <<pendingResponse, responseListeners, humanInputs,
                      waitingForResponse, toolSucceeded, loopPc>>
  /\ UNCHANGED contacts
  /\ UNCHANGED emailVars

NextAgent ==
  \/ LoopTop
  \/ \E exit \in BOOLEAN : Prompt(exit)
  \/ ToolContact
  \/ GenerateEnd
  \/ \E r \in ReplyIds, token \in BOOLEAN, result \in {"text", "notext", "error"} :
       WebhookPost(r, token, result)
  \/ \E r \in ReplyIds : WebhookDeliver(r)

InitAgentSystem ==
  /\ InitListener /\ seen = Msgs
  /\ mailbox = [m \in Msgs |-> [uid |-> m, mail |-> "reply"]]
  /\ InitConstructed /\ InitSend /\ InitNoCall /\ InitAgent /\ InitSlack

SpecAgent == InitAgentSystem /\ [][NextAgent]_vars

\* The loop and the webhook handler run when they can; the user and the
\* human who is asked need not act.
SpecAgentFair ==
  /\ SpecAgent
  /\ WF_vars(LoopTop)
  /\ WF_vars(GenerateEnd)
  /\ WF_vars(\E r \in ReplyIds : WebhookDeliver(r))

(***************************************************************************)
(* The mock-chat connector: startFakeSlackListener, stopFakeSlackListener  *)
(* and the webhook requests that reach the Express applications.           *)
(***************************************************************************)
notSlackVars == <<connVars, mailVars, lastOp, ctorVars, sendVars, pureVars, agentVars>>

\* startFakeSlackListener(app, callback): throws while a listener is
\* running; otherwise keeps the application, sets the flag and registers a
\* handler for POST /webhook/task-updates whose closure holds the callback.
\* (expressApp.post of an Express application does not throw, so the catch
\* block is not entered.)
startFakeSlackListener(app, callback) ==
  /\ fakeSlackListening \/ Len(routes[app]) < MaxRoutes
  /\ IF fakeSlackListening
     THEN /\ startRet' = "threw"
          /\ UNCHANGED <<fakeSlackListening, expressApp, routes, listenerCallback>>
     ELSE /\ expressApp' = app
          /\ fakeSlackListening' = TRUE
          /\ routes' = [routes EXCEPT ![app] = Append(@, callback)]
          /\ listenerCallback' = callback
          /\ startRet' = "ok"
  /\ UNCHANGED <<invoked, requests>>
  /\ UNCHANGED notSlackVars

\* stopFakeSlackListener(): clears the flag and the application; the route
\* stays registered on the application.
stopFakeSlackListener ==
  /\ IF fakeSlackListening
     THEN fakeSlackListening' = FALSE /\ expressApp' = 0
     ELSE UNCHANGED <<fakeSlackListening, expressApp>>
  /\ UNCHANGED <<routes, listenerCallback, startRet, invoked, requests>>
  /\ UNCHANGED notSlackVars

\* POST /webhook/task-updates reaches the application.  Express runs the
\* first handler registered for the path, and every handler answers the
\* request itself (it never calls next): 400 for a payload without taskId
\* or answer, otherwise the callback of its closure is invoked, 200 when the
\* callback returns and 500 when it throws.  Without a route, 404.
WebhookRequest(app, hasTaskId, hasAnswer, throws) ==
  /\ Len(requests) < MaxRequests
  /\ throws => (routes[app] # <<>> /\ hasTaskId /\ hasAnswer)
  /\ IF routes[app] = <<>>
     THEN /\ requests' = Append(requests, [app |-> app, status |-> 404,
                                           callback |-> "none"])
          /\ UNCHANGED invoked
     ELSE IF ~(hasTaskId /\ hasAnswer)
     THEN /\ requests' = Append(requests, [app |-> app, status |-> 400,
                                           callback |-> "none"])
          /\ UNCHANGED invoked
     ELSE /\ invoked' = [invoked EXCEPT ![routes[app][1]] = @ + 1]
          /\ requests' = Append(requests, [app |-> app,
                                           status |-> IF throws THEN 500 ELSE 200,
                                           callback |-> routes[app][1]])
  /\ UNCHANGED <<fakeSlackListening, expressApp, routes, listenerCallback, startRet>>
  /\ UNCHANGED notSlackVars

NextSlack ==
  \/ \E app \in Apps, callback \in Callbacks : startFakeSlackListener(app, callback)
  \/ stopFakeSlackListener
  \/ \E app \in Apps, hasTaskId \in BOOLEAN, hasAnswer \in BOOLEAN, throws \in BOOLEAN :
       WebhookRequest(app, hasTaskId, hasAnswer, throws)

SpecSlack == InitAgentSystem /\ [][NextSlack]_vars

(***************************************************************************)
(* Properties of the scan passes (SpecScan).                               *)
(***************************************************************************)
\* C1: while the connector is listening and the session stays ready, a
\* message whose handler call completed successfully is flagged read on the
\* mailbox afterwards.
C1_SuccessFlagsMessage ==
  [][\A k \in ScanIds, m \in Msgs :
       (HandlerReturn(k, m) /\ isListening
          /\ sessions[scans[k].sess].st = "authenticated")
       => m \in seen']_vars

C4_ThrowContained ==
  /\ [](\A k \in ScanIds, m \in Msgs :
          scans[k].ms[m] = "threw"
          => /\ scans[k].phase = "fetch"
             /\ \A n \in Msgs :
                  /\ (scans[k].ms[n] = "fetched" /\ calls[n] < MaxCalls)
                     => ENABLED ProcessMessage(k, n)
                  /\ scans[k].ms[n] = "handling" => ENABLED HandlerReturn(k, n)
             /\ (\A n \in Msgs : scans[k].ms[n] \in Finished) => ENABLED ScanEnd(k))
  /\ [][\A k \in ScanIds, m \in Msgs :
          HandlerThrow(k, m)
          => /\ UNCHANGED connVars
             /\ scans'[k].phase = "fetch"
             /\ \A n \in Msgs \ {m} : scans'[k].ms[n] = scans[k].ms[n]]_vars

\* In one pass, one message's handler threw and another message's handler
\* returned, and the connector is listening.
C4_Witness ==
  \E k \in ScanIds, m \in Msgs, n \in Msgs :
    /\ m # n
    /\ scans[k].ms[m] = "threw" /\ scans[k].ms[n] = "returned"
    /\ isListening /\ sessions[scans[k].sess].st = "authenticated"

\* C5: for a message whose subject yields no identifier the handler is
\* never invoked and the message stays unread.
C5_NoIdentifierUntouched ==
  \A m \in Msgs :
    ParsedTaskId[mailbox[m].mail] = Null => calls[m] = 0 /\ m \notin seen

(***************************************************************************)
(* Properties of the session lifecycle (SpecLife).                         *)
(***************************************************************************)
\* C6: a call of startEmailListener while a session of the connector is
\* connecting or ready is rejected and leaves the session, the polling
\* timer and the reconnect counter unchanged.
C6_StartRejectedWhileLive ==
  [][\A throws \in BOOLEAN :
       (CallerStart(throws) /\ LiveSessions # {})
       => /\ lastOp' = "startRejected"
          /\ UNCHANGED <<imapConnection, sessions, pollingInterval, timers,
                         reconnectAttempts>>]_vars

\* C7: in every reachable state the connector has at most one live session.
C7_AtMostOneLiveSession == Cardinality(LiveSessions) <= 1

\* C8: the reconnect counter never exceeds the ceiling; a connection error
\* at the ceiling raises the terminal error and schedules nothing; every
\* reconnection that is scheduled is counted, below the ceiling.
C8_GivesUpAtCeiling ==
  /\ [](reconnectAttempts \in 0..maxReconnectAttempts)
  /\ [][\A s \in SessIds :
          (ImapError(s) /\ reconnectAttempts = maxReconnectAttempts)
          => /\ terminalError'
             /\ pendingReconnects' = pendingReconnects
             /\ reconnectAttempts' = reconnectAttempts]_vars
  /\ [][pendingReconnects' > pendingReconnects
          => /\ reconnectAttempts < maxReconnectAttempts
             /\ reconnectAttempts' = reconnectAttempts + 1]_vars
  /\ [][(terminalError' /\ ~terminalError)
          => reconnectAttempts = maxReconnectAttempts]_vars

\* The terminal error was raised, at the ceiling, with nothing scheduled.
C8_Witness ==
  terminalError /\ reconnectAttempts = maxReconnectAttempts /\ pendingReconnects = 0

\* C9: when stopEmailListener returns, the connector has no live session
\* and no polling timer.
C9_StopTearsDown ==
  [][CallerStop => (LiveSessions' = {} /\ timers' = {})]_vars

\* C10: stopEmailListener does not throw, a second call changes nothing
\* after a first, and on a connector without a connection or that is not
\* listening the call changes nothing.
C10_StopIdempotent ==
  /\ [](LET once == stopEmailListener(ConnState)
        IN /\ ~once.threw
           /\ stopEmailListener(once) = once
           /\ (imapConnection = 0 \/ ~isListening) => once = ConnState)
  /\ [][(CallerStop /\ (imapConnection = 0 \/ ~isListening))
          => UNCHANGED <<connVars, mailVars>>]_vars

\* stopEmailListener was called on a connector that an earlier call had
\* stopped, whose session is still logging out.
C10_Witness ==
  /\ lastOp = "stopNoop" /\ imapConnection = 0 /\ ~isListening
  /\ \E s \in SessIds : sessions[s].logout

\* C11: when the initial connect of a listener the caller started fails,
\* the promise startEmailListener returned is rejected.
C11_ConnectFailureRejectsStart ==
  [][\A s \in SessIds :
       (/\ ImapError(s)
        /\ sessions[s].st = "connecting" /\ imapConnection = s
        /\ lastOp = "started" /\ reconnectAttempts = 0)
       => lastOp' = "startThrew"]_vars

(***************************************************************************)
(* Properties of the pure methods (SpecPure).                              *)
(***************************************************************************)
\* The call of extractTaskId on the subject s has returned.
Extracted(s) == arg.op = "extractTaskId" /\ arg.subject = s /\ ret.done

\* C14: the subject sendEmail builds for an identifier of [a-zA-Z0-9_-]+
\* yields that identifier when it is run through the extractor.
C14_SubjectRoundTrip ==
  \A id \in TaskIds : Extracted(SubjectFor(id)) => ret.value = id

\* The extractor returned Z- for the subject sendEmail builds for Z-.
C14_Witness ==
  Extracted(SubjectFor(<<"Z", "-">>)) /\ ret.value = <<"Z", "-">>

\* C16: for a subject `Support request: [#X]`, with or without a reply or
\* forward prefix and with or without the colon, X of [a-zA-Z0-9_-]+,
\* extraction returns X.
C16_ShapedSubjectYieldsId ==
  \A prefix \in ReplyPrefixes, colon \in BOOLEAN, id \in TaskIds :
    Extracted(ShapedSubject(prefix, colon, id)) => ret.value = id

\* The extractor returned 0_ for `FWD: Support request [#0_]`.
C16_Witness ==
  /\ Extracted(ShapedSubject(<<"F","W","D",":"," ">>, FALSE, <<"0", "_">>))
  /\ ret.value = <<"0", "_">>

\* The positions of s where a bracketed token `[#...]` starts: `[#`, a
\* character that is not `]`, and a `]` further on.
TokenStarts(s) ==
  {i \in 1..Len(s) :
     /\ i + 3 <= Len(s)
     /\ s[i] = "[" /\ s[i + 1] = "#" /\ s[i + 2] # "]"
     /\ \E j \in (i + 3)..Len(s) : s[j] = "]"}

\* The position of the `]` that closes the token that starts at i.
TokenEnd(s, i) == Lowest({j \in (i + 3)..Len(s) : s[j] = "]"})

\* The text of the token that starts at i, between `[#` and the next `]`.
TokenText(s, i) == SubSeq(s, i + 2, TokenEnd(s, i) - 1)

\* C17, as stated: for a subject that contains no bracketed token,
\* extraction returns none.
C17_NoTokenInSubject ==
  (arg.op = "extractTaskId" /\ ret.done /\ TokenStarts(arg.subject) = {})
  => ret.value = Null

\* C17: for a subject whose percent-decoded form (the subject itself when
\* decoding fails) contains no bracketed token, extraction returns none.
C17_NoTokenAfterDecoding ==
  (arg.op = "extractTaskId" /\ ret.done
     /\ TokenStarts(NormalizeSubject(arg.subject)) = {})
  => ret.value = Null

\* The extractor returned none for `%[#`, which cannot be decoded and
\* holds no token.
C17_Witness == Extracted(<<"%", "[", "#">>) /\ ret.value = Null

\* C18: for a subject with several bracketed tokens, one after the other,
\* of which a later one is a valid task id, extraction does not return none.
C18_LaterValidTokenFound ==
  (/\ arg.op = "extractTaskId" /\ ret.done
   /\ LET s == NormalizeSubject(arg.subject)
      IN \E i \in TokenStarts(s), k \in TokenStarts(s) :
           TokenEnd(s, i) < k /\ ValidTaskId(Trim(TokenText(s, k))))
  => ret.value # Null

\* C19: the content prepared from a body longer than the ceiling is no
\* longer than the ceiling plus the truncation notice, and a body of at
\* most the ceiling is delivered without the notice.
C19_ContentWithinCeiling ==
  (arg.op = "emailContent" /\ ret.done)
  => LET body == IF arg.msg.text # <<>> THEN arg.msg.text ELSE arg.msg.html
     IN IF BodyLength(body) > maxEmailContentLength
        THEN BodyLength(ret.value)
               <= maxEmailContentLength + BodyLength(TruncationNotice)
        ELSE ret.value = NormalizeNFD(body)

(***************************************************************************)
(* Properties of construction and sendEmail (SpecConnector).               *)
(***************************************************************************)
\* A required property of a configuration is missing.
Missing(c, names) == \E f \in names : c[2][f] = Undefined

\* The port of the configuration is a number that is not an integer or
\* lies outside 1..65535.
BadPort(c) ==
  /\ c[2].port[1] = "number"
  /\ \/ c[2].port[2] % c[2].port[3] # 0
     \/ c[2].port[2] < c[2].port[3]
     \/ c[2].port[2] > 65535 * c[2].port[3]

\* An SMTP configuration with a missing field, a field of the wrong type or
\* a bad port.
InvalidSmtp(c) ==
  \/ c[1] # "object"
  \/ Missing(c, {"host", "port", "secure", "user", "pass"})
  \/ \E f \in {"host", "user", "pass"} : c[2][f][1] # "string"
  \/ c[2].port[1] # "number" \/ c[2].secure[1] # "boolean"
  \/ BadPort(c)

\* An IMAP configuration with a missing field, a field of the wrong type or
\* a bad port.
InvalidImap(c) ==
  \/ c[1] # "object"
  \/ Missing(c, {"host", "port", "user", "password"})
  \/ \E f \in {"host", "user", "password"} : c[2][f][1] # "string"
  \/ c[2].port[1] # "number"
  \/ c[2].tls[1] \notin {"undefined", "boolean"}
  \/ c[2].tlsOptions[1] \notin {"undefined", "object"}
  \/ BadPort(c)

\* C12: constructing a connector with an invalid SMTP or IMAP configuration
\* throws; no connector exists afterwards, no transporter was created and
\* no mailbox connection was created or attempted.
C12_InvalidConfigThrows ==
  (arg.op = "construct"
     /\ (InvalidSmtp(arg.smtp) \/ InvalidImap(arg.imap)))
  => /\ ctorThrew /\ ~constructed
     /\ smtpConfig = Undefined /\ imapConfig = Undefined
     /\ transporter = 0 /\ outbox = <<>>
     /\ imapConnection = 0 /\ LiveSessions = {} /\ ~isListening

\* A construction with a port that is not an integer has thrown.
C12_Witness ==
  /\ arg.op = "construct"
  /\ arg.smtp[1] = "object" /\ arg.smtp[2].port = Num(5, 2)
  /\ ctorThrew /\ ~constructed

\* C13: the subject of the mail options handed to the transport is
\* `Support request: [#<identifier>]`, whatever the options hold.
C13_SubjectNotOverridable ==
  (arg.op = "sendEmail")
  => outbox[Len(outbox)]["subject"] = Str(SubjectFor(arg.taskId))

\* The text sub occurs in the text s.
Contains(s, sub) ==
  \E i \in 0..(Len(s) - Len(sub)) : SubSeq(s, i + 1, i + Len(sub)) = sub

\* C15: a sendEmail call hands the mail options to the transport exactly
\* once; when the transport fails with an error the call throws an error
\* whose message holds the identifier and the message of the cause.
C15_SendOnceErrorCarriesCause ==
  /\ []((arg.op = "sendEmail")
          => IF arg.outcome[1] = "ok" THEN sendRet.value = <<"ok">>
             ELSE /\ sendRet.value[1] = "Error"
                  /\ Contains(sendRet.value[2], arg.taskId)
                  /\ arg.outcome[1] = "Error"
                       => Contains(sendRet.value[2], arg.outcome[2]))
  /\ [][(\E taskId \in SendIds, options \in OptionSets, outcome \in SendOutcomes :
           SendEmail(taskId, options, outcome))
        => /\ Len(outbox') = Len(outbox) + 1
           /\ SubSeq(outbox', 1, Len(outbox)) = outbox]_vars

\* A sendEmail call whose transport failed has thrown, after one hand-over.
C15_Witness ==
  /\ arg.op = "sendEmail" /\ arg.outcome[1] = "Error"
  /\ sendRet.value[1] = "Error" /\ Len(outbox) = 1

(***************************************************************************)
(* Properties of the CLI agent (SpecAgentFair).                            *)
(***************************************************************************)
\* The loop has resumed with reply r.
ResumedWith(r) == \E i \in 1..Len(humanInputs) : humanInputs[i] = r

\* C20: a reply that reaches the webhook with the right token and with its
\* text in the task history is eventually handed to the main loop, which
\* resumes with it.
C20_ReplyResumesLoop ==
  \A r \in ReplyIds :
    (webhooks[r].stage = "fetching" /\ webhooks[r].result = "text") ~> ResumedWith(r)

(***************************************************************************)
(* Further properties of the scan passes (SpecScan).                       *)
(***************************************************************************)
\* C21: a message is flagged read only by the step in which a handler
\* invocation for that message completes, and never while a handler
\* invocation for it is still running.
C21_FlagOnlyAfterHandler ==
  [][\A m \in seen' \ seen :
       /\ \E k \in ScanIds : HandlerReturn(k, m)
       /\ \A k \in ScanIds : scans'[k].ms[m] # "handling"]_vars

(***************************************************************************)
(* Further properties of the session lifecycle (SpecLife, SpecLifeFair).   *)
(***************************************************************************)
\* The listener the caller started, and did not stop, has no session that
\* is connecting or ready: its session failed.
SessionFailed == lastOp = "started" /\ LiveSessions = {}
\* A session is ready.
SessionReady == \E s \in SessIds : Live(s) /\ sessions[s].st = "authenticated"

\* C22: after a transport failure of the session of a listener that was not
\* stopped, eventually a session is ready again or the terminal error was
\* raised (or the caller has called start or stop in the meantime).
C22_FailureLeadsToReadyOrTerminal ==
  SessionFailed ~> (SessionReady \/ terminalError \/ lastOp # "started")

\* C23: a transport error below the ceiling schedules exactly one reconnect
\* attempt and increments the counter by exactly one, the new session is
\* not opened in the same step but only once the delay has elapsed, and at
\* most one reconnect attempt of a connector is waiting for its delay.
C23_OneReconnectPerError ==
  /\ [][\A s \in SessIds :
          (ImapError(s) /\ reconnectAttempts < maxReconnectAttempts)
          => /\ pendingReconnects' = pendingReconnects + 1
             /\ reconnectAttempts' = reconnectAttempts + 1
             /\ LiveSessions' \subseteq LiveSessions
             /\ imapConnection' = imapConnection]_vars
  /\ [](pendingReconnects <= 1)

\* C24: when a session that a reconnect opened gets ready, the reconnect
\* counter is zero afterwards, whatever it was; every ready handler resets
\* the counter.
C24_ReadyResetsCounter ==
  [][\A s \in SessIds : ImapReady(s) => reconnectAttempts' = 0]_vars

\* A session that a reconnect opened has just got ready (its openBox is
\* pending) and the counter is zero.
C24_Witness ==
  \E s \in SessIds :
    /\ sessions[s].by = "reconnect"
    /\ sessions[s].st = "authenticated" /\ sessions[s].opening
    /\ reconnectAttempts = 0 /\ pendingReconnects = 0

(***************************************************************************)
(* Properties of stopping during a scan pass (SpecStop).                   *)
(***************************************************************************)
\* C25: stopEmailListener leaves the passes in flight as they are; a
\* message that was fetched is still handed to the handler, a handler that
\* is running still returns or throws; and when a handler returns after the
\* stop, the message is flagged read.
C25_StopLeavesPassInFlight ==
  /\ [][CallerStop => (scans' = scans /\ calls' = calls /\ seen' = seen)]_vars
  /\ [](\A k \in ScanIds, m \in Msgs :
          /\ (scans[k].phase = "fetch" /\ scans[k].ms[m] = "fetched"
              /\ calls[m] < MaxCalls) => ENABLED ProcessMessage(k, m)
          /\ (scans[k].phase = "fetch" /\ scans[k].ms[m] = "handling")
             => (ENABLED HandlerReturn(k, m) /\ ENABLED HandlerThrow(k, m)))
  /\ [][\A k \in ScanIds, m \in Msgs :
          (HandlerReturn(k, m) /\ lastOp = "stopped" /\ imapConnection = 0)
          => seen' = addFlags(m)]_vars

(***************************************************************************)
(* Further properties of the session lifecycle, continued (SpecLife).      *)
(***************************************************************************)
\* attemptReconnect is called at the ceiling, from the error handler or
\* from its own catch block, and throws the terminal error.
TerminalStep ==
  /\ reconnectAttempts >= maxReconnectAttempts
  /\ (\E s \in SessIds : ImapError(s)) \/ ReconnectFire(TRUE)

\* C26: when the terminal error is raised at the ceiling, the connector
\* holds no session reference afterwards and is not marked listening.
C26_TerminalClosesConnector ==
  [][TerminalStep => (imapConnection' = 0 /\ ~isListening')]_vars

\* The caller's last call was stopEmailListener.
CallerStopped == lastOp \in {"stopped", "stopNoop"}

\* C27: while the caller's last call is stopEmailListener, no step of the
\* connector opens a session or starts a scan pass.
C27_StoppedStaysStopped ==
  [][(CallerStopped /\ lastOp' = lastOp)
       => /\ \A s \in SessIds :
               sessions'[s].st = "connecting" => sessions[s].st = "connecting"
          /\ \A k \in ScanIds :
               scans'[k].phase = "search" => scans[k].phase = "search"]_vars

\* C28: when the caller starts a listener on a connector that is not
\* listening and has no reconnect under way, the reconnect counter is zero
\* once startEmailListener has returned.
C28_StartHasFullBudget ==
  [][\A throws \in BOOLEAN :
       (CallerStart(throws) /\ ~isListening /\ pendingReconnects = 0)
       => reconnectAttempts' = 0]_vars

(***************************************************************************)
(* Further properties of the scan passes, continued (SpecScan).            *)
(***************************************************************************)
\* C29: the token handed to addFlags after the handler returned for
\* message m denotes, in the identifier space of addFlags, message m itself:
\* the flag operation flags m, and the step flags no other message.
C29_FlagTargetsDeliveredMessage ==
  [][\A k \in ScanIds, m \in Msgs :
       HandlerReturn(k, m)
       => /\ addFlags(m) = seen \cup {m}
          /\ seen' \ seen \subseteq {m}]_vars

(***************************************************************************)
(* Properties of the polling timer (SpecLife).                             *)
(***************************************************************************)
\* The test of the timer's callback, for the timer created for session s.
TickTestPasses(s) ==
  s \in timers /\ isListening /\ sessions[s].st = "authenticated"

\* Pass k is a search that the step has just issued on session s as a poll.
NewPollScan(k, s) ==
  /\ scans[k].phase = "idle"
  /\ scans'[k].phase = "search" /\ scans'[k].sess = s /\ scans'[k].trig = "poll"

\* C30: a tick starts a scan only when the connector is marked listening
\* and the timer's session is authenticated; whenever that holds, a tick
\* can start a scan, whatever the other passes are doing; and on a
\* connection whose end() was not called the tick issues a new search and
\* leaves the passes in flight as they are.
C30_TickScansWhileReady ==
  /\ [][\A s \in SessIds : PollTick(s) => TickTestPasses(s)]_vars
  /\ [](\A s \in SessIds :
          (TickTestPasses(s) /\ (FreeScanIds # {} \/ sessions[s].logout))
          => ENABLED PollTick(s))
  /\ [][\A s \in SessIds :
          (PollTick(s) /\ ~sessions[s].logout)
          => /\ \E k \in ScanIds : NewPollScan(k, s)
             /\ \A k \in ScanIds : scans[k].phase # "idle" => scans'[k] = scans[k]]_vars

\* While a poll of a session is still searching, a tick of the same
\* session's timer has started a second poll.
C30_Witness ==
  \E s \in SessIds :
    /\ TickTestPasses(s) /\ ~sessions[s].logout
    /\ \A k \in ScanIds :
         scans[k].phase = "search" /\ scans[k].sess = s /\ scans[k].trig = "poll"

(***************************************************************************)
(* Properties of the polling timer, continued (SpecLife).                  *)
(***************************************************************************)
\* C31: at most one polling timer of the connector is pending, and it is
\* the one this.pollingInterval holds; startPolling clears the timer that
\* field holds before it sets the new one.
C31_AtMostOneTimer ==
  /\ [](Cardinality(timers) <= 1)
  /\ [](timers = IF pollingInterval = 0 THEN {} ELSE {pollingInterval})
  /\ [][\A s \in SessIds : OpenBoxOk(s) => timers' = {s}]_vars

\* Two sessions on which polling was started are both connected, and only
\* the timer of one of them is pending: startPolling on the later session
\* cleared the timer of the earlier.
C31_Witness ==
  \E s, t \in SessIds :
    /\ s # t
    /\ Live(s) /\ sessions[s].box
    /\ Live(t) /\ sessions[t].box
    /\ timers = {s}

(***************************************************************************)
(* Properties of the search of a scan pass (SpecScan).                     *)
(***************************************************************************)
\* C32: a pass fetches a message only through its search, and the search
\* leaves out every message that is flagged read when it is answered (so
\* every message flagged before the search began); the handler is invoked
\* only for a message the pass fetched.
C32_SeenMessagesExcluded ==
  /\ [][\A k \in ScanIds :
          SearchDone(k) => \A m \in seen : scans'[k].ms[m] = "none"]_vars
  /\ [][\A k \in ScanIds, m \in Msgs :
          (scans'[k].ms[m] = "fetched" /\ scans[k].ms[m] # "fetched")
          => (SearchDone(k) /\ m \notin seen)]_vars
  /\ [][\A m \in Msgs :
          calls'[m] # calls[m]
          => \E k \in ScanIds : ProcessMessage(k, m) /\ scans[k].ms[m] = "fetched"]_vars

\* A pass has fetched an unread message and left out a message that an
\* earlier pass delivered and that is flagged read.
C32_Witness ==
  \E k \in ScanIds, m, n \in Msgs :
    /\ scans[k].phase = "fetch"
    /\ m \in seen /\ calls[m] = 1 /\ scans[k].ms[m] = "none"
    /\ n \notin seen /\ scans[k].ms[n] = "fetched"

(***************************************************************************)
(* Properties of parse failures (SpecParse).                               *)
(***************************************************************************)
\* C33: a parse failure changes nothing but the state of its message in its
\* pass: no handler is invoked, no flag changes, the connector's fields are
\* untouched; the pass does not invoke the handler for that message; the
\* other messages of the pass are still processed and the pass can complete.
C33_ParseFailureContained ==
  /\ [][\A k \in ScanIds, m \in Msgs :
          ParseFail(k, m)
          => /\ calls' = calls /\ delivered' = delivered /\ seen' = seen
             /\ UNCHANGED connVars
             /\ scans'[k].phase = "fetch"
             /\ \A n \in Msgs \ {m} : scans'[k].ms[n] = scans[k].ms[n]]_vars
  /\ [](\A k \in ScanIds, m \in Msgs :
          scans[k].ms[m] = "parseFailed"
          => /\ scans[k].phase = "fetch" /\ scans[k].invoked[m] = 0
             /\ \A n \in Msgs :
                  /\ (scans[k].ms[n] = "fetched" /\ calls[n] < MaxCalls)
                     => ENABLED ProcessMessage(k, n)
                  /\ scans[k].ms[n] = "handling" => ENABLED HandlerReturn(k, n)
             /\ (\A n \in Msgs : scans[k].ms[n] \in Finished) => ENABLED ScanEnd(k))

\* In one pass one message failed to parse, was not delivered and is
\* unread, and another message's handler returned and the message is read.
C33_Witness ==
  \E k \in ScanIds, m, n \in Msgs :
    /\ scans[k].ms[m] = "parseFailed" /\ calls[m] = 0 /\ m \notin seen
    /\ scans[k].ms[n] = "returned" /\ n \in seen

(***************************************************************************)
(* Properties of search and fetch failures (SpecParse).                    *)
(***************************************************************************)
\* A search or a fetch of pass k fails.
ScanFails(k) == SearchFail(k) \/ \E lost \in SUBSET Msgs : FetchFail(k, lost)

\* C34: a search or fetch failure of a pass, whatever triggered the pass,
\* changes neither the listening flag nor the session reference, the
\* connected sessions, the polling timer or the reconnect counter, nor any
\* other pass, flag or handler call; a failed search frees the pass at
\* once; and a trigger whose session is ready can start a new pass
\* whenever a pass is free.
C34_ScanFailureContained ==
  /\ [][\A k \in ScanIds :
          ScanFails(k)
          => /\ UNCHANGED <<isListening, imapConnection, pollingInterval, timers,
                            reconnectAttempts, pendingReconnects, terminalError>>
             /\ \A s \in SessIds : Live(s) => sessions'[s] = sessions[s]
             /\ UNCHANGED <<seen, calls, delivered>>
             /\ \A j \in ScanIds \ {k} : scans'[j] = scans[j]]_vars
  /\ [][\A k \in ScanIds : SearchFail(k) => scans'[k] = IdleScan]_vars
  /\ [](\A s \in SessIds :
          FreeScanIds # {}
          => /\ TickTestPasses(s) => ENABLED PollTick(s)
             /\ (sessions[s].st = "authenticated" /\ sessions[s].box)
                => ENABLED ImapMail(s))

\* The fetch of a pass that a push notification started has failed before
\* it delivered an unread message; the connector is listening, its session
\* is ready and its timer is pending.
C34_Witness ==
  \E k \in ScanIds, m \in Msgs :
    /\ scans[k].phase = "fetch" /\ scans[k].trig = "mail"
    /\ scans[k].ms[m] = "none" /\ m \notin seen
    /\ isListening /\ TickTestPasses(scans[k].sess)

(***************************************************************************)
(* Further properties of the pure methods (SpecPure).                      *)
(***************************************************************************)
\* The patterns whose leftmost match on the normalized subject n captures a
\* text that, trimmed, is a valid task id.
Conforming(n) ==
  {p \in 1..Len(PatternOrder) :
     Bind(FirstMatch(n, PatternOrder[p]), LAMBDA m :
       m # NoMatch /\ ValidTaskId(Trim(m)))}

\* C35: an identifier the extractor returns is non-empty, is trimmed and
\* consists of [a-zA-Z0-9_-]; the extractor returns the trimmed capture of
\* the first pattern of the list whose capture conforms, passing over the
\* patterns whose capture is empty or does not conform, and returns none
\* only when no pattern's capture conforms.
C35_FirstConformingPatternWins ==
  (arg.op = "extractTaskId" /\ ret.done)
  => Bind(NormalizeSubject(arg.subject), LAMBDA n :
       Bind(Conforming(n), LAMBDA ok :
         /\ ret.value # Null
            => (ValidTaskId(ret.value) /\ Trim(ret.value) = ret.value)
         /\ IF ok = {} \/ arg.subject = <<>> THEN ret.value = Null
            ELSE ret.value = Trim(FirstMatch(n, PatternOrder[Lowest(ok)]))))

\* For `[#ok]Support request: [#b!]` the first four patterns capture `b!`,
\* which does not conform, and the extractor returned the capture of the
\* fifth.
C35_Witness ==
  /\ Extracted(<<"[","#","o","k","]",
                 "S","u","p","p","o","r","t"," ","r","e","q","u","e","s","t",":"," ",
                 "[","#","b","!","]">>)
  /\ ret.value = <<"o","k">>

\* The patterns of the list, by number, that match the normalized subject n.
Matching(n) == {p \in 1..5 : FirstMatch(n, p) # NoMatch}

FirstConforming(n) ==
  IF Conforming(n) = {} THEN Null
  ELSE Trim(FirstMatch(n, PatternOrder[Lowest(Conforming(n))]))

\* C37: extraction never ends by throwing; a subject that is empty or not
\* a string yields none; a subject that can be percent-decoded is matched
\* in its decoded form, and one that cannot (a malformed percent sequence)
\* is matched as it was written.
C37_NeverThrowsFallsBackToRaw ==
  (arg.op = "extractTaskId" /\ ret.done)
  => /\ ret.value # URIError
     /\ IF arg.subject = <<>> \/ arg.subject \in NonStrings
        THEN ret.value = Null
        ELSE IF Decodable(arg.subject, 1)
        THEN ret.value = FirstConforming(DecodeFrom(arg.subject, 1))
        ELSE ret.value = FirstConforming(arg.subject)

\* The extractor returned `ok` for `%[#ok]`, whose lone `%` makes
\* decodeURIComponent throw.
C37_Witness ==
  /\ Extracted(<<"%", "[", "#", "o", "k", "]">>)
  /\ ~Decodable(arg.subject, 1)
  /\ ret.value = <<"o", "k">>

(***************************************************************************)
(* A further property of LoopState (SpecAgent).                            *)
(***************************************************************************)
\* C38: a value passed to setResponse resolves at most one waitForResponse
\* call: no reply is handed to the loop twice.  (A reply is passed to
\* setResponse at most once, by the webhook request that carries it.)
C38_ResponseResolvesOneWait ==
  \A i \in DOMAIN humanInputs, j \in DOMAIN humanInputs :
    i # j => humanInputs[i] # humanInputs[j]

(***************************************************************************)
(* A further property of construction (SpecConnector).                     *)
(***************************************************************************)
\* C39: once a connector is constructed, the host and the user of its
\* stored SMTP and IMAP configurations are non-empty strings.
C39_StoredHostAndUserNonEmpty ==
  constructed
  => \A c \in {smtpConfig, imapConfig} :
       /\ c[2].host[1] = "string" /\ c[2].host[2] # <<>>
       /\ c[2].user[1] = "string" /\ c[2].user[2] # <<>>

(***************************************************************************)
(* A property of the mock-chat connector (SpecSlack).                      *)
(***************************************************************************)
\* C40: a startFakeSlackListener call made while a listener is running is
\* rejected and changes nothing; and while the listener started by
\* startFakeSlackListener(app, B) is running, a webhook request on app with
\* both taskId and answer invokes B exactly once and no other callback,
\* whatever listeners were started and stopped on app before.
C40_WebhookInvokesCurrentCallback ==
  /\ [][\A app \in Apps, callback \in Callbacks :
          (fakeSlackListening /\ startFakeSlackListener(app, callback))
          => /\ startRet' = "threw"
             /\ UNCHANGED <<fakeSlackListening, expressApp, routes,
                            listenerCallback, invoked>>]_vars
  /\ [][\A app \in Apps, throws \in BOOLEAN :
          (/\ fakeSlackListening /\ expressApp = app
           /\ WebhookRequest(app, TRUE, TRUE, throws))
          => invoked' = [invoked EXCEPT ![listenerCallback] = @ + 1]]_vars

=============================================================================
